---- MODULE Spec2Model ----
(***************************************************************************)
(* A model of py-xbrl's instance parser (src/xbrl/instance.py) and of its  *)
(* uri helper (src/xbrl/helper/uri_helper.py).                             *)
(*                                                                         *)
(* Text is a sequence of one-character strings, so that strip, lower,      *)
(* split, substring tests and number parsing are computed character by     *)
(* character as the Python code computes them.  A Python "None or value"   *)
(* is a sequence of length 0 or 1.  A float is the integer number of its   *)
(* tenths (1234567.4 is 12345674): every text of the model has at most one *)
(* fractional digit, and the calls whose scaled value is not a whole       *)
(* number of tenths are left out (ExactScaling), so the arithmetic is      *)
(* exact.  A raised Python exception is a record naming its class.         *)
(*                                                                         *)
(* parse_xbrl and parse_ixbrl are modelled from the parsed document tree   *)
(* on: the tree (xbrl.helper.xml_parser) and the taxonomy (xbrl.taxonomy)  *)
(* are what the parser is given.                                           *)
(***************************************************************************)
EXTENDS Integers, Sequences, FiniteSets, TLC

VARIABLES
    mode,         \* "xbrl" (parse_xbrl) or "ixbrl" (parse_ixbrl): the entry point called
    doc,          \* the parsed document tree handed to the entry point
    pc,           \* position of the call: "idle", "start", "resources", "contexts", "units",
                  \* "facts", "done", "error"
    ctx_i,        \* loop index of _parse_context_elements / _parse_unit_elements
    idx,          \* loop index of the fact loop
    ns_map,       \* the namespace-prefix map of the running parse
    imports,      \* taxonomy.imports: namespaces of the lazily loaded common taxonomies
    context_dir,  \* context id -> context
    unit_dir,     \* unit id -> unit
    facts,        \* the fact list built so far
    result,       \* <<>> until the call ends; then <<XbrlInstance>> or <<exception>>
    call,         \* the argument of a direct call of a value-extraction function
    ret,          \* <<>>, or <<the value the direct call returned or raised>>
    uri_cache     \* uri_helper.uri_cache: the module-level dict of compare_uri

vars == <<mode, doc, pc, ctx_i, idx, ns_map, imports, context_dir, unit_dir, facts,
          result, call, ret, uri_cache>>

parseVars == <<mode, doc, pc, ctx_i, idx, ns_map, imports, context_dir, unit_dir, facts, result>>

(***************************************************************************)
(* Python str operations                                                   *)
(***************************************************************************)
None == <<>>
Some(v) == <<v>>
IsNone(o) == Len(o) = 0
Get(o) == o[1]

Digits == <<"0", "1", "2", "3", "4", "5", "6", "7", "8", "9">>
UpperChars == <<"A", "B", "C", "D", "E", "F", "G", "H", "I", "J", "K", "L", "M",
                "N", "O", "P", "Q", "R", "S", "T", "U", "V", "W", "X", "Y", "Z">>
LowerChars == <<"a", "b", "c", "d", "e", "f", "g", "h", "i", "j", "k", "l", "m",
                "n", "o", "p", "q", "r", "s", "t", "u", "v", "w", "x", "y", "z">>
Whitespace == {" ", "\t", "\n"}

IsDigit(c) == \E i \in 1..10 : Digits[i] = c
DigitVal(c) == (CHOOSE i \in 1..10 : Digits[i] = c) - 1

\* str.lower() of one character
LowerChar(c) ==
    IF \E i \in 1..26 : UpperChars[i] = c
    THEN LowerChars[CHOOSE i \in 1..26 : UpperChars[i] = c]
    ELSE c

\* str.lower()
Lower(s) == [i \in 1..Len(s) |-> LowerChar(s[i])]

\* str.strip()
RECURSIVE LStrip(_)
LStrip(s) == IF s # <<>> /\ Head(s) \in Whitespace THEN LStrip(Tail(s)) ELSE s
RECURSIVE RStrip(_)
RStrip(s) ==
    IF s # <<>> /\ s[Len(s)] \in Whitespace THEN RStrip(SubSeq(s, 1, Len(s) - 1)) ELSE s
Strip(s) == RStrip(LStrip(s))

\* needle in s (substring test)
StartsWith(s, p) == Len(p) <= Len(s) /\ SubSeq(s, 1, Len(p)) = p
Contains(s, needle) ==
    \E i \in 1..(Len(s) - Len(needle) + 1) : SubSeq(s, i, i + Len(needle) - 1) = needle

\* s.split(c) for a one-character separator: the list of the parts
RECURSIVE SplitFrom(_, _, _)
SplitFrom(s, c, cur) ==
    IF s = <<>> THEN <<cur>>
    ELSE IF Head(s) = c THEN <<cur>> \o SplitFrom(Tail(s), c, <<>>)
    ELSE SplitFrom(Tail(s), c, Append(cur, Head(s)))
Split(s, c) == SplitFrom(s, c, <<>>)

\* s.replace(c, by) for a one-character c and a text by
RECURSIVE Replace(_, _, _)
Replace(s, c, by) ==
    IF s = <<>> THEN <<>>
    ELSE (IF Head(s) = c THEN by ELSE <<Head(s)>>) \o Replace(Tail(s), c, by)

Ok(v) == [ok |-> TRUE, val |-> v, err |-> ""]
Raise(e) == [ok |-> FALSE, val |-> 0, err |-> e]

\* the value of a text of digits
RECURSIVE DigitsVal(_)
DigitsVal(s) ==
    IF s = <<>> THEN 0 ELSE 10 * DigitsVal(SubSeq(s, 1, Len(s) - 1)) + DigitVal(s[Len(s)])
AllDigits(s) == s # <<>> /\ \A i \in 1..Len(s) : IsDigit(s[i])

\* the text after an optional sign, and the sign's factor
Unsigned(s) == IF s # <<>> /\ Head(s) \in {"-", "+"} THEN Tail(s) ELSE s
SignOf(s) == IF s # <<>> /\ Head(s) = "-" THEN -1 ELSE 1

\* int(text): surrounding whitespace, an optional sign, decimal digits
PyInt(text) ==
    LET s == Strip(text) IN
    IF AllDigits(Unsigned(s)) THEN Ok(SignOf(s) * DigitsVal(Unsigned(s)))
    ELSE Raise("ValueError")

\* float(text), in tenths: surrounding whitespace, an optional sign, digits and at
\* most one fractional digit ("100", "-100", "1234567.4", "5.")
PyFloat(text) ==
    LET s == Strip(text)
        u == Unsigned(s)
        parts == Split(u, ".")
    IN  IF Len(parts) = 1 /\ AllDigits(parts[1])
        THEN Ok(SignOf(s) * 10 * DigitsVal(parts[1]))
        ELSE IF Len(parts) = 2 /\ AllDigits(parts[1]) /\ parts[2] = <<>>
        THEN Ok(SignOf(s) * 10 * DigitsVal(parts[1]))
        ELSE IF Len(parts) = 2 /\ AllDigits(parts[1]) /\ AllDigits(parts[2]) /\ Len(parts[2]) = 1
        THEN Ok(SignOf(s) * (10 * DigitsVal(parts[1]) + DigitsVal(parts[2])))
        ELSE Raise("ValueError")

(***************************************************************************)
(* Float arithmetic of the scaling procedure, on tenths                    *)
(***************************************************************************)
Abs(n) == IF n < 0 THEN -n ELSE n

\* pow(10, value_scale) for value_scale >= 0
RECURSIVE Pow10(_)
Pow10(n) == IF n <= 0 THEN 1 ELSE 10 * Pow10(n - 1)

\* the threshold 1e6 of the floating-point error mitigation, in tenths
Threshold == 10000000

\* float(round(v)): Python 3 rounds to the nearest integer, a tie to the even one
PyRound(t) ==
    LET a == Abs(t)
        q == a \div 10
        r == a % 10
        n == IF r < 5 THEN q
             ELSE IF r > 5 THEN q + 1
             ELSE IF q % 2 = 0 THEN q ELSE q + 1
    IN  (IF t < 0 THEN -1 ELSE 1) * n * 10

(***************************************************************************)
(* time.strptime for the English month formats                             *)
(***************************************************************************)
\* %b: the abbreviated month names of the C locale, matched ignoring case
MonthAbbrs == <<<<"j", "a", "n">>,
               <<"f", "e", "b">>,
               <<"m", "a", "r">>,
               <<"a", "p", "r">>,
               <<"m", "a", "y">>,
               <<"j", "u", "n">>,
               <<"j", "u", "l">>,
               <<"a", "u", "g">>,
               <<"s", "e", "p">>,
               <<"o", "c", "t">>,
               <<"n", "o", "v">>,
               <<"d", "e", "c">>>>
\* %B: the full month names
MonthNames == <<<<"j", "a", "n", "u", "a", "r", "y">>,
               <<"f", "e", "b", "r", "u", "a", "r", "y">>,
               <<"m", "a", "r", "c", "h">>,
               <<"a", "p", "r", "i", "l">>,
               <<"m", "a", "y">>,
               <<"j", "u", "n", "e">>,
               <<"j", "u", "l", "y">>,
               <<"a", "u", "g", "u", "s", "t">>,
               <<"s", "e", "p", "t", "e", "m", "b", "e", "r">>,
               <<"o", "c", "t", "o", "b", "e", "r">>,
               <<"n", "o", "v", "e", "m", "b", "e", "r">>,
               <<"d", "e", "c", "e", "m", "b", "e", "r">>>>

IsLeap(y) == (y % 4 = 0 /\ y % 100 # 0) \/ y % 400 = 0
DaysIn(y, m) ==
    IF m = 2 THEN (IF IsLeap(y) THEN 29 ELSE 28)
    ELSE IF m \in {4, 6, 9, 11} THEN 30 ELSE 31

\* the month whose name (of the list names) starts the text, 0 when none does
MonthAt(names, s) ==
    IF \E m \in 1..12 : StartsWith(Lower(s), names[m])
    THEN CHOOSE m \in 1..12 : StartsWith(Lower(s), names[m])
    ELSE 0

\* the directives %d and %m: one or two digits, within 1..hi
TwoDigits(s, hi) ==
    AllDigits(s) /\ Len(s) <= 2 /\ DigitsVal(s) >= 1 /\ DigitsVal(s) <= hi

\* strptime(s, '%b %d') (names = MonthAbbrs) and strptime(s, '%B %d') (names =
\* MonthNames): a month name, whitespace, a day; the year defaults to 1900, and to
\* the leap year 1904 for 29 February.  The value is <<tm_mon, tm_mday>>.
StrptimeMonthDay(s, names) ==
    LET m == MonthAt(names, s)
        rest == IF m = 0 THEN <<>> ELSE SubSeq(s, Len(names[m]) + 1, Len(s))
        d == LStrip(rest)
    IN  IF m # 0 /\ rest # <<>> /\ Head(rest) \in Whitespace /\ TwoDigits(d, 31)
           /\ DigitsVal(d) <= DaysIn(IF m = 2 /\ DigitsVal(d) = 29 THEN 1904 ELSE 1900, m)
        THEN Ok(<<m, DigitsVal(d)>>)
        ELSE Raise("ValueError")

\* str(n) for an integer n >= 0
RECURSIVE NatStr(_)
NatStr(n) == IF n < 10 THEN <<Digits[n + 1]>> ELSE NatStr(n \div 10) \o <<Digits[(n % 10) + 1]>>

(***************************************************************************)
(* Elements of the document tree (lxml elements)                           *)
(***************************************************************************)
\* A dict is a function; the empty dict:
EmptyDict == [k \in {} |-> 0]
Put(d, k, v) == [x \in DOMAIN d \cup {k} |-> IF x = k THEN v ELSE d[x]]

\* An element with no attribute, no text and no child.  node is "element", or
\* "comment" for a comment or processing instruction (its tag is not a str).
\* An attribute or the text is None (<<>>) when absent.  A sub-element the code
\* looks up with find() (identifier, instant, startDate, endDate, measure, the
\* divide's numerator and denominator measure) is None when absent and
\* Some(its text) when present, its text being None or Some(characters).
\* segment is None or Some(the sequence of its explicitMember elements);
\* forever is whether the period holds a forever element.
Elem ==
    [node |-> "element", tag |-> <<>>, text |-> None, children |-> <<>>, nsmap |-> EmptyDict,
     id |-> None, contextRef |-> None, unitRef |-> None, decimals |-> None,
     name |-> None, format |-> None, scale |-> None, sign |-> None, nil |-> None,
     ns_map_attr |-> None,
     identifier |-> None, instant |-> None, startDate |-> None, endDate |-> None,
     forever |-> FALSE, segment |-> None, dimension |-> None,
     measure |-> None, divide |-> None, href |-> None]

(***************************************************************************)
(* _extract_ixbrl_value                                                    *)
(***************************************************************************)
\* What a value-extraction function returns (a float in tenths, a str, an int)
\* or raises.
VFloat(t) == [kind |-> "float", num |-> t, str |-> <<>>, err |-> ""]
VStr(s) == [kind |-> "str", num |-> 0, str |-> s, err |-> ""]
VInt(n) == [kind |-> "int", num |-> n, str |-> <<>>, err |-> ""]
VNone == [kind |-> "None", num |-> 0, str |-> <<>>, err |-> ""]
VRaise(e) == [kind |-> "raise", num |-> 0, str |-> <<>>, err |-> e]

\* str(raw_value) for the text of an element, which may be None
StrOf(text) == IF IsNone(text) THEN <<"N", "o", "n", "e">> ELSE Get(text)

\* raw_value * pow(10, value_scale), in tenths (a negative scale divides)
Scaled(t, value_scale) ==
    IF value_scale >= 0 THEN t * Pow10(value_scale) ELSE t \div Pow10(-value_scale)

\* "if abs(raw_value) > 1e6: raw_value = float(round(raw_value))" with the round
\* replaced by a truncation towards zero
MagnitudeRoundTrunc(t) ==
    IF Abs(t) > Threshold THEN (IF t < 0 THEN -1 ELSE 1) * (Abs(t) \div 10) * 10 ELSE t

\* "if abs(raw_value) > 1e6: raw_value = float(round(raw_value))"
MagnitudeRound(t) == IF Abs(t) > Threshold THEN PyRound(t) ELSE t

\* "if value_sign == '-': raw_value = -raw_value"
ApplySign(t, value_sign) == IF value_sign = Some(<<"-">>) THEN -t ELSE t

\* The scaling procedure with the rounding done before the scaling.
ScaleRoundSignRoundFirst(t, value_scale, value_sign) ==
    ApplySign(Scaled(MagnitudeRound(t), value_scale), value_sign)

\* The scaling procedure of a float: scale, magnitude-based round, sign.
ScaleRoundSign(t, value_scale, value_sign) ==
    ApplySign(MagnitudeRound(Scaled(t, value_scale)), value_sign)

\* The branches of _extract_ixbrl_value for an element with a format attribute:
\* the value of raw_value after them.
FormatBranch(raw_text, value_format) ==
    IF value_format = <<"n", "u", "m", "c", "o", "m", "m", "a", "d", "e", "c", "i", "m", "a", "l">> THEN
        IF IsNone(raw_text) THEN VRaise("AttributeError")
        ELSE LET f == PyFloat(Replace(Replace(Replace(Strip(Get(raw_text)), " ", <<>>),
                                              ".", <<>>), ",", <<".">>))
             IN  IF f.ok THEN VFloat(f.val) ELSE VRaise(f.err)
    ELSE IF value_format = <<"n", "u", "m", "d", "o", "t", "d", "e", "c", "i", "m", "a", "l">> THEN
        IF IsNone(raw_text) THEN VRaise("AttributeError")
        ELSE LET f == PyFloat(Replace(Replace(Strip(Get(raw_text)), " ", <<>>), ",", <<>>))
             IN  IF f.ok THEN VFloat(f.val) ELSE VRaise(f.err)
    ELSE IF value_format = <<"d", "a", "t", "e", "m", "o", "n", "t", "h", "d", "a", "y", "e", "n">> THEN
        IF IsNone(raw_text) THEN VRaise("AttributeError")
        ELSE LET v == Replace(Get(raw_text), "-", <<" ">>)
                 d == IF Len(Split(v, " ")[1]) = 3
                      THEN StrptimeMonthDay(v, MonthAbbrs)
                      ELSE StrptimeMonthDay(v, MonthNames)
             IN  IF d.ok
                 THEN VStr(<<"-", "-">> \o NatStr(d.val[1]) \o <<"-">> \o NatStr(d.val[2]))
                 ELSE VRaise(d.err)
    ELSE IF IsNone(raw_text) THEN VRaise("AttributeError")
    ELSE IF value_format = <<"n", "u", "m", "w", "o", "r", "d", "s", "e", "n">>
            /\ Lower(Strip(Get(raw_text))) \in {<<"n", "o">>, <<"n", "o", "n", "e">>}
        THEN VInt(0)
    ELSE VStr(Strip(Get(raw_text)))

\* raw_value when the scaling is reached (lines 462-501)
RawValue(fact_elem) ==
    LET raw_text == fact_elem.text
        fparts == IF IsNone(fact_elem.format) THEN <<>> ELSE Split(Get(fact_elem.format), ":")
    IN  IF IsNone(fact_elem.format) THEN
            IF IsNone(fact_elem.unitRef) THEN VStr(Strip(StrOf(raw_text)))
            ELSE IF IsNone(raw_text) THEN VRaise("TypeError")
            ELSE LET f == PyFloat(Get(raw_text))
                 IN  IF f.ok THEN VFloat(f.val) ELSE VStr(Strip(Get(raw_text)))
        ELSE IF Len(fparts) < 2 THEN VRaise("IndexError")
        ELSE FormatBranch(raw_text, fparts[2])

_extract_ixbrl_value(fact_elem) ==
    LET value_scale == IF IsNone(fact_elem.scale) THEN Ok(0) ELSE PyInt(Get(fact_elem.scale))
        value_sign == fact_elem.sign
        raw_value == RawValue(fact_elem)
    IN  IF ~value_scale.ok THEN VRaise(value_scale.err)
        ELSE IF raw_value.kind = "float"
        THEN VFloat(ScaleRoundSign(raw_value.num, value_scale.val, value_sign))
        ELSE raw_value

(***************************************************************************)
(* Direct calls of _extract_ixbrl_value                                    *)
(***************************************************************************)
\* TLC's integers are 32-bit: the largest magnitude, in tenths, a call may reach
MaxTenths == 2000000000

CallTexts ==
    {None,
     Some(<<"1", "0", "0">>),
     Some(<<"-", "1", "0", "0">>),
     Some(<<"1", "2", "3", "4", "5", "6", "7", ".", "4">>),
     Some(<<"9", "9", "9", "9", "9", "9", ".", "4">>),
     Some(<<"1", "2", "3", "4", "5", "6", "7", ".", "6">>),
     Some(<<"1", "0", "0", "0", "0", "0", "0">>),
     Some(<<"1", "0", "0", "0", "0", "0", "0", ".", "5">>),
     Some(<<"1", "2", "3", "4", "5", "6", "7", ".", "5">>),
     Some(<<"1", "2", "3", "4", ".", "5">>),
     Some(<<" ", "5", " ">>),
     Some(<<"a", "b", "c">>),
     Some(<<"N", "o">>),
     Some(<<"1", "2", ",", "5">>),
     Some(<<"1", " ", "2", "3", "4", ".", "5">>),
     Some(<<"D", "e", "c", " ", "3", "1">>),
     Some(<<"D", "e", "c", "e", "m", "b", "e", "r", "-", "3", "1">>)}
CallScales ==
    {None,
     Some(<<"3">>),
     Some(<<"1">>),
     Some(<<"0">>),
     Some(<<"-", "1">>),
     Some(<<"x">>)}
CallSigns ==
    {None,
     Some(<<"-">>),
     Some(<<"+">>)}
CallFormats ==
    {None,
     Some(<<"i", "x", "t", ":", "n", "u", "m", "d", "o", "t", "d", "e", "c", "i", "m", "a", "l">>),
     Some(<<"i", "x", "t", ":", "n", "u", "m", "c", "o", "m", "m", "a", "d", "e", "c", "i", "m", "a", "l">>),
     Some(<<"i", "x", "t", ":", "d", "a", "t", "e", "m", "o", "n", "t", "h", "d", "a", "y", "e", "n">>),
     Some(<<"i", "x", "t", "-", "s", "e", "c", ":", "n", "u", "m", "w", "o", "r", "d", "s", "e", "n">>),
     Some(<<"i", "x", "t", ":", "z", "e", "r", "o", "d", "a", "s", "h">>),
     Some(<<"b", "o", "o", "l", "e", "a", "n", "t", "r", "u", "e">>)}
CallUnitRefs == {None, Some("u1")}

\* The float multiplication by pow(10, scale) is exact, and within TLC's integers,
\* when the text has no fractional digit other than 0 or 5 or the scale is 0, and
\* a negative scale divides without a remainder.
ExactScaling(fact_elem) ==
    LET f == RawValue(fact_elem)
        n == IF IsNone(fact_elem.scale) THEN Ok(0) ELSE PyInt(Get(fact_elem.scale))
    IN  (f.kind = "float" /\ n.ok /\ n.val # 0) =>
            /\ f.num % 5 = 0
            /\ n.val > 0 => Abs(f.num) <= MaxTenths \div Pow10(n.val)
            /\ n.val < 0 => f.num % (10 * Pow10(-n.val)) = 0

Calls ==
    {e \in {[Elem EXCEPT !.text = t, !.scale = sc, !.sign = sg, !.format = f, !.unitRef = u] :
                t \in CallTexts, sc \in CallScales, sg \in CallSigns, f \in CallFormats,
                u \in CallUnitRefs} :
        ExactScaling(e)}

Idle ==
    /\ mode = "none" /\ doc = <<>> /\ pc = "idle" /\ ctx_i = 0 /\ idx = 0
    /\ ns_map = EmptyDict /\ imports = <<>> /\ context_dir = EmptyDict
    /\ unit_dir = EmptyDict /\ facts = <<>> /\ result = None
    /\ uri_cache = EmptyDict

InitValue ==
    /\ Idle
    /\ call \in Calls
    /\ ret = None

\* one call of _extract_ixbrl_value(call)
ExtractIxbrlValue ==
    /\ ret = None
    /\ ret' = Some(_extract_ixbrl_value(call))
    /\ UNCHANGED <<parseVars, call, uri_cache>>

NextValue == ExtractIxbrlValue

SpecValue == InitValue /\ [][NextValue]_vars

(***************************************************************************)
(* Claims about the scaling procedure (checked under SpecValue)            *)
(***************************************************************************)
\* the call is of a unit-bearing element with this text, scale and sign and no format
CallIs(text, scale, sign) ==
    /\ call.text = text /\ call.scale = scale /\ call.sign = sign
    /\ call.format = None /\ call.unitRef # None

\* the call parsed a float and an integer scale, so the scaling procedure ran
ScalingRan == ret # None /\ RawValue(call).kind = "float" /\ Get(ret).kind = "float"

\* the scale exponent of the call
ScaleOf == IF IsNone(call.scale) THEN 0 ELSE PyInt(Get(call.scale)).val

\* the parsed number times 10^scale
ScaledValue == Scaled(RawValue(call).num, ScaleOf)

PrimaryNs == {<<"G">>}
\* the namespaces parse_common_taxonomy can load:
CommonNs == {<<"D">>}
\* Taxonomy.name_id_map: the concept names of each taxonomy
ConceptNames(ns) ==
    IF ns = <<"G">>
    THEN {<<"A", "s", "s", "e", "t", "s">>, <<"O", "p", "p", "o", "r", "t", "u", "n", "i", "t", "y">>, <<"A", "x", "i", "s">>, <<"M", "e", "m", "b", "e", "r">>}
    ELSE IF ns = <<"D">> THEN {<<"N", "a", "m", "e">>, <<"M", "e", "m", "b", "e", "r">>}
    ELSE {}

Range(seq) == {seq[i] : i \in 1..Len(seq)}

\* taxonomy.get_taxonomy(namespace): the taxonomy itself or one of its imports,
\* or None
get_taxonomy(imps, namespace) ==
    IF namespace \in PrimaryNs \cup Range(imps) THEN Some(namespace) ELSE None

\* parse_common_taxonomy(cache, namespace)
parse_common_taxonomy(namespace) ==
    IF namespace \in CommonNs THEN Some(namespace) ELSE None

(***************************************************************************)
(* Resolution helpers of instance.py                                       *)
(***************************************************************************)
\* The outcome of a step that may raise and may change ns_map and
\* taxonomy.imports on the way: ok, the value, the exception class, and the two
\* mutable objects as the step left them (also when it raised).
Step(ok, val, err, nm, imps) == [ok |-> ok, val |-> val, err |-> err, ns_map |-> nm, imports |-> imps]

\* a merge in which the declarations of the element win over the bindings held
_update_ns_map_overwriting(nm, new_ns_map) ==
    [p \in DOMAIN nm \cup DOMAIN new_ns_map |->
        IF p \in DOMAIN new_ns_map THEN new_ns_map[p] ELSE nm[p]]

\* _update_ns_map(ns_map, new_ns_map): ns_map afterwards
_update_ns_map(nm, new_ns_map) ==
    [p \in DOMAIN nm \cup DOMAIN new_ns_map |->
        IF p \in DOMAIN nm THEN nm[p] ELSE new_ns_map[p]]

\* a fallback that returns the loaded taxonomy without registering it as an import
_load_common_taxonomy_unregistered(imps, namespace) ==
    LET tax == parse_common_taxonomy(namespace) IN
    IF IsNone(tax) THEN [ok |-> FALSE, tax |-> <<>>, err |-> "TaxonomyNotFound", imports |-> imps]
    ELSE [ok |-> TRUE, tax |-> Get(tax), err |-> "", imports |-> imps]

\* _load_common_taxonomy(cache, namespace, taxonomy)
_load_common_taxonomy(imps, namespace) ==
    LET tax == parse_common_taxonomy(namespace) IN
    IF IsNone(tax) THEN [ok |-> FALSE, tax |-> <<>>, err |-> "TaxonomyNotFound", imports |-> imps]
    ELSE [ok |-> TRUE, tax |-> Get(tax), err |-> "", imports |-> Append(imps, Get(tax))]

\* "tax = taxonomy.get_taxonomy(ns); if tax is None: tax = _load_common_taxonomy(...)"
ResolveTaxonomy(imps, namespace) ==
    LET tax == get_taxonomy(imps, namespace) IN
    IF IsNone(tax) THEN _load_common_taxonomy(imps, namespace)
    ELSE [ok |-> TRUE, tax |-> Get(tax), err |-> "", imports |-> imps]

\* whether "tax.concepts[tax.name_id_map[concept_name]]" finds the concept
HasConcept(tax, concept_name) == concept_name \in ConceptNames(tax)
Concept(tax, concept_name) == [ns |-> tax, name |-> concept_name]

(***************************************************************************)
(* _parse_context_elements                                                 *)
(***************************************************************************)
\* datetime.strptime(text, '%Y-%m-%d').date(): <<year, month, day>>
ParseDate(text) ==
    LET parts == Split(text, "-") IN
    IF /\ Len(parts) = 3
       /\ AllDigits(parts[1]) /\ Len(parts[1]) = 4 /\ DigitsVal(parts[1]) >= 1
       /\ TwoDigits(parts[2], 12)
       /\ TwoDigits(parts[3], 31)
       /\ DigitsVal(parts[3]) <= DaysIn(DigitsVal(parts[1]), DigitsVal(parts[2]))
    THEN Ok(<<DigitsVal(parts[1]), DigitsVal(parts[2]), DigitsVal(parts[3])>>)
    ELSE Raise("ValueError")

\* "<child>.text.strip()" parsed as a date, for the child find() returned
\* (None: the child is absent)
ChildDate(child) ==
    IF IsNone(child) \/ IsNone(Get(child)) THEN Raise("AttributeError")
    ELSE ParseDate(Strip(Get(Get(child))))

\* A context constructed without the id it was given
ContextWithoutId(kind, xml_id, entity, instant_date, start_date, end_date) ==
    [kind |-> kind, xml_id |-> "", entity |-> entity, instant_date |-> instant_date,
     start_date |-> start_date, end_date |-> end_date, segments |-> <<>>]

\* The context objects (AbstractContext and its subclasses, lines 53-119)
Context(kind, xml_id, entity, instant_date, start_date, end_date) ==
    [kind |-> kind, xml_id |-> xml_id, entity |-> entity, instant_date |-> instant_date,
     start_date |-> start_date, end_date |-> end_date, segments |-> <<>>]

\* Lines 695-705: the context built from the period markers
PeriodContext(context_elem, context_id, entity) ==
    IF ~IsNone(context_elem.instant)
    THEN LET d == ChildDate(context_elem.instant)
         IN  IF d.ok THEN Ok(Context("instant", context_id, entity, Some(d.val), None, None))
             ELSE Raise(d.err)
    ELSE IF context_elem.forever
    THEN Ok(Context("forever", context_id, entity, None, None, None))
    ELSE LET st == ChildDate(context_elem.startDate)
             en == ChildDate(context_elem.endDate)
         IN  IF ~st.ok THEN Raise(st.err)
             ELSE IF ~en.ok THEN Raise(en.err)
             ELSE Ok(Context("timeframe", context_id, entity, None, Some(st.val), Some(en.val)))

\* Lines 711-735: one explicitMember element; val is the ExplicitMember
ExplicitMemberStep(em, nm0, imps0) ==
    LET nm == _update_ns_map(nm0, em.nsmap)
        dparts == IF IsNone(em.dimension) THEN <<>> ELSE Split(Strip(Get(em.dimension)), ":")
        mparts == IF IsNone(em.text) THEN <<>> ELSE Split(Strip(Get(em.text)), ":")
        Fail(e, imps) == Step(FALSE, <<>>, e, nm, imps)
    IN  IF IsNone(em.dimension) THEN Fail("KeyError", imps0)
        ELSE IF Len(dparts) # 2 THEN Fail("ValueError", imps0)
        ELSE IF IsNone(em.text) THEN Fail("AttributeError", imps0)
        ELSE IF Len(mparts) # 2 THEN Fail("ValueError", imps0)
        ELSE IF dparts[1] \notin DOMAIN nm THEN Fail("KeyError", imps0)
        ELSE
        LET dimension_tax == ResolveTaxonomy(imps0, nm[dparts[1]]) IN
        IF ~dimension_tax.ok THEN Fail(dimension_tax.err, dimension_tax.imports)
        ELSE IF mparts[1] # dparts[1] /\ mparts[1] \notin DOMAIN nm
        THEN Fail("KeyError", dimension_tax.imports)
        ELSE
        LET member_tax == IF mparts[1] = dparts[1] THEN dimension_tax
                          ELSE ResolveTaxonomy(dimension_tax.imports, nm[mparts[1]])
        IN  IF ~member_tax.ok THEN Fail(member_tax.err, member_tax.imports)
            ELSE IF ~HasConcept(dimension_tax.tax, dparts[2]) THEN Fail("KeyError", member_tax.imports)
            ELSE IF ~HasConcept(member_tax.tax, mparts[2]) THEN Fail("KeyError", member_tax.imports)
            ELSE Step(TRUE, [dimension |-> Concept(dimension_tax.tax, dparts[2]),
                             member |-> Concept(member_tax.tax, mparts[2])],
                      "", nm, member_tax.imports)

\* Lines 710-735: the loop over the explicitMember elements of a segment; val is
\* the list of the ExplicitMembers appended to context.segments
RECURSIVE SegmentLoop(_, _, _, _)
SegmentLoop(members, segments, nm, imps) ==
    IF members = <<>> THEN Step(TRUE, segments, "", nm, imps)
    ELSE LET r == ExplicitMemberStep(Head(members), nm, imps) IN
         IF ~r.ok THEN r
         ELSE SegmentLoop(Tail(members), Append(segments, r.val), r.ns_map, r.imports)

\* Lines 687-737: the body of the loop for one context element; val is the
\* context stored under its id
ContextElementStep(context_elem, nm, imps) ==
    IF IsNone(context_elem.id) THEN Step(FALSE, <<>>, "KeyError", nm, imps)
    ELSE IF IsNone(context_elem.identifier) THEN Step(FALSE, <<>>, "AttributeError", nm, imps)
    ELSE
    LET context_id == Get(context_elem.id)
        entity == Strip(StrOf(Get(context_elem.identifier)))
        context == PeriodContext(context_elem, context_id, entity)
    IN  IF ~context.ok THEN Step(FALSE, <<>>, context.err, nm, imps)
        ELSE IF IsNone(context_elem.segment) THEN Step(TRUE, context.val, "", nm, imps)
        ELSE LET sg == SegmentLoop(Get(context_elem.segment), <<>>, nm, imps) IN
             IF ~sg.ok THEN sg
             ELSE Step(TRUE, [context.val EXCEPT !.segments = sg.val], "", sg.ns_map, sg.imports)

(***************************************************************************)
(* _parse_unit_elements                                                    *)
(***************************************************************************)
\* "<child>.text.strip()" for the child find() returned
ChildText(child) ==
    IF IsNone(child) \/ IsNone(Get(child)) THEN Raise("AttributeError")
    ELSE Ok(Strip(Get(Get(child))))

\* Lines 762-773: the body of the loop for one unit element; val is the unit
UnitElementStep(unit_elem) ==
    IF IsNone(unit_elem.id) THEN Raise("KeyError")
    ELSE IF ~IsNone(unit_elem.measure)
    THEN LET m == ChildText(unit_elem.measure) IN
         IF ~m.ok THEN Raise(m.err)
         ELSE Ok([kind |-> "simple", unit_id |-> Get(unit_elem.id), unit |-> m.val,
                  numerator |-> <<>>, denominator |-> <<>>])
    ELSE IF IsNone(unit_elem.divide) THEN Raise("AttributeError")
    ELSE LET n == ChildText(Get(unit_elem.divide).numerator)
             d == ChildText(Get(unit_elem.divide).denominator)
         IN  IF ~n.ok THEN Raise(n.err)
             ELSE IF ~d.ok THEN Raise(d.err)
             ELSE Ok([kind |-> "divide", unit_id |-> Get(unit_elem.id), unit |-> <<>>,
                      numerator |-> n.val, denominator |-> d.val])

(***************************************************************************)
(* _normalize_transformed_value                                            *)
(***************************************************************************)
\* re.sub(r'[,\-\._]', ' ', value)
RECURSIVE SeparatorsToSpaces(_)
SeparatorsToSpaces(s) ==
    IF s = <<>> THEN <<>>
    ELSE <<IF Head(s) \in {",", "-", ".", "_"} THEN " " ELSE Head(s)>> \o SeparatorsToSpaces(Tail(s))

\* re.sub(r'\s{2,}', ' ', value): a run of two or more whitespace characters
\* becomes one space; a single whitespace character stays
RECURSIVE SkipSpace(_)
SkipSpace(s) == IF s # <<>> /\ Head(s) \in Whitespace THEN SkipSpace(Tail(s)) ELSE s
RECURSIVE SqueezeSpaces(_)
SqueezeSpaces(s) ==
    IF s = <<>> THEN <<>>
    ELSE IF Len(s) >= 2 /\ s[1] \in Whitespace /\ s[2] \in Whitespace
    THEN <<" ">> \o SqueezeSpaces(SkipSpace(s))
    ELSE <<Head(s)>> \o SqueezeSpaces(Tail(s))

\* re.sub of a character class by '': the characters of s not in the set
RECURSIVE Without(_, _)
Without(s, chars) ==
    IF s = <<>> THEN <<>>
    ELSE (IF Head(s) \in chars THEN <<>> ELSE <<Head(s)>>) \o Without(Tail(s), chars)

\* str.zfill(2)
\* a padding that also cuts a longer text to its last two characters
Zfill2LastTwo(s) ==
    IF Len(s) > 2 THEN SubSeq(s, Len(s) - 1, Len(s))
    ELSE IF Len(s) = 2 THEN s
    ELSE IF Len(s) = 1 THEN (IF s[1] \in {"-", "+"} THEN <<s[1], "0">> ELSE <<"0", s[1]>>)
    ELSE <<"0", "0">>

Zfill2(s) ==
    IF Len(s) >= 2 THEN s
    ELSE IF Len(s) = 1 THEN (IF s[1] \in {"-", "+"} THEN <<s[1], "0">> ELSE <<"0", s[1]>>)
    ELSE <<"0", "0">>

\* the month a token names under %b or %B (names), 0 when it names none
MonthOf(names, tok) ==
    IF \E m \in 1..12 : names[m] = Lower(tok)
    THEN CHOOSE m \in 1..12 : names[m] = Lower(tok)
    ELSE 0

\* %Y: four digits
IsYear(tok) == AllDigits(tok) /\ Len(tok) = 4

\* strptime of a day token, a month token and an optional year token (None: the
\* format has no %Y and the year is 1900, or 1904 for 29 February).  names is
\* MonthAbbrs (%b), MonthNames (%B) or <<>> (%m).  The value is
\* <<tm_year, tm_mon, tm_mday>>.
Strptime(day, month, year, names) ==
    LET m == IF names = <<>>
             THEN (IF TwoDigits(month, 12) THEN DigitsVal(month) ELSE 0)
             ELSE MonthOf(names, month)
        d == IF TwoDigits(day, 31) THEN DigitsVal(day) ELSE 0
        y == IF IsNone(year) THEN (IF m = 2 /\ d = 29 THEN 1904 ELSE 1900)
             ELSE IF IsYear(Get(year)) THEN DigitsVal(Get(year)) ELSE 0
    IN  IF m # 0 /\ d # 0 /\ y # 0 /\ d <= DaysIn(y, m) THEN Ok(<<y, m, d>>)
        ELSE Raise("ValueError")

\* f'--{str(tm_mon).zfill(2)}-{str(tm_mday).zfill(2)}'
MonthDayText(d) ==
    IF d.ok THEN VStr(<<"-", "-">> \o Zfill2(NatStr(d.val[2])) \o <<"-">> \o Zfill2(NatStr(d.val[3])))
    ELSE VRaise(d.err)

\* f"{tm_year}-{str(tm_mon).zfill(2)}-{str(tm_mday).zfill(2)}"
FullDateText(d) ==
    IF d.ok THEN VStr(NatStr(d.val[1]) \o <<"-">> \o Zfill2(NatStr(d.val[2])) \o <<"-">>
                      \o Zfill2(NatStr(d.val[3])))
    ELSE VRaise(d.err)

\* Lines 610-661: the date family; seg is the list of the segments
DateFamily(seg, transform_format) ==
    LET n == Len(seg)
        Abbr(tok) == IF Len(tok) = 3 THEN MonthAbbrs ELSE MonthNames
    IN  IF transform_format = <<"d", "a", "t", "e", "d", "a", "y", "m", "o", "n", "t", "h">> THEN
            IF n < 2 THEN VRaise("IndexError")
            ELSE VStr(<<"-", "-">> \o Zfill2(seg[2]) \o <<"-">> \o Zfill2(seg[1]))
        ELSE IF transform_format = <<"d", "a", "t", "e", "d", "a", "y", "m", "o", "n", "t", "h", "e", "n">> THEN
            IF n < 2 THEN VRaise("IndexError")
            ELSE MonthDayText(Strptime(seg[1], seg[2], None, Abbr(seg[2])))
        ELSE IF transform_format = <<"d", "a", "t", "e", "d", "a", "y", "m", "o", "n", "t", "h", "y", "e", "a", "r">> THEN
            IF n < 3 THEN VRaise("IndexError")
            ELSE VStr(Zfill2(seg[3]) \o <<"-">> \o Zfill2(seg[2]) \o <<"-">> \o Zfill2(seg[1]))
        ELSE IF transform_format = <<"d", "a", "t", "e", "d", "a", "y", "m", "o", "n", "t", "h", "y", "e", "a", "r", "e", "n">> THEN
            IF n < 3 THEN VRaise("IndexError")
            ELSE FullDateText(Strptime(seg[1], seg[2], Some(seg[3]), Abbr(seg[2])))
        ELSE IF transform_format = <<"d", "a", "t", "e", "m", "o", "n", "t", "h", "d", "a", "y">> THEN
            IF n < 2 THEN VRaise("IndexError")
            ELSE VStr(<<"-", "-">> \o Zfill2(seg[1]) \o <<"-">> \o Zfill2(seg[2]))
        ELSE IF transform_format = <<"d", "a", "t", "e", "m", "o", "n", "t", "h", "d", "a", "y", "e", "n">> THEN
            IF n < 2 THEN VRaise("IndexError")
            ELSE MonthDayText(Strptime(seg[2], seg[1], None, Abbr(seg[1])))
        ELSE IF transform_format = <<"d", "a", "t", "e", "m", "o", "n", "t", "h", "d", "a", "y", "y", "e", "a", "r">> THEN
            IF n < 3 THEN VRaise("IndexError")
            ELSE FullDateText(Strptime(seg[2], seg[1], Some(seg[3]), <<>>))
        ELSE IF transform_format = <<"d", "a", "t", "e", "m", "o", "n", "t", "h", "d", "a", "y", "y", "e", "a", "r", "e", "n">> THEN
            IF n < 3 THEN VRaise("IndexError")
            ELSE FullDateText(Strptime(seg[2], seg[1], Some(seg[3]),
                                       IF Len(seg[1]) <= 3 THEN MonthAbbrs ELSE MonthNames))
        ELSE IF transform_format = <<"d", "a", "t", "e", "y", "e", "a", "r", "m", "o", "n", "t", "h", "d", "a", "y">> THEN
            IF n < 3 THEN VRaise("IndexError")
            ELSE FullDateText(Strptime(seg[3], seg[2], Some(seg[1]), <<>>))
        ELSE VNone

\* _normalize_transformed_value(value, transform_format): the str returned, None
\* when the function ends without a return statement, or the exception raised
_normalize_transformed_value(value0, transform_format) ==
    LET value == Strip(Lower(value0)) IN
    IF transform_format = <<"b", "o", "o", "l", "e", "a", "n", "f", "a", "l", "s", "e">> THEN VStr(<<"f", "a", "l", "s", "e">>)
    ELSE IF transform_format = <<"b", "o", "o", "l", "e", "a", "n", "t", "r", "u", "e">> THEN VStr(<<"t", "r", "u", "e">>)
    ELSE IF transform_format = <<"z", "e", "r", "o", "d", "a", "s", "h">> THEN VStr(<<"0">>)
    ELSE IF transform_format = <<"n", "o", "c", "o", "n", "t", "e", "n", "t">> THEN VStr(<<>>)
    ELSE IF StartsWith(transform_format, <<"d", "a", "t", "e">>)
    THEN DateFamily(Split(SqueezeSpaces(SeparatorsToSpaces(value)), " "), transform_format)
    ELSE IF StartsWith(transform_format, <<"n", "u", "m">>) THEN
        IF transform_format = <<"n", "u", "m", "c", "o", "m", "m", "a", "d", "e", "c", "i", "m", "a", "l">>
        THEN VStr(Replace(Without(value, Whitespace \cup {"-", "."}), ",", <<".">>))
        ELSE IF transform_format = <<"n", "u", "m", "d", "o", "t", "d", "e", "c", "i", "m", "a", "l">>
        THEN VStr(Without(value, Whitespace \cup {"-", ","}))
        ELSE VNone
    ELSE VRaise("InstanceParseException")

(***************************************************************************)
(* _extract_non_numeric_value and _extract_non_fraction_value              *)
(***************************************************************************)
\* Lines 529-536 and 556-566: the format attribute applied to the text
ApplyFormat(fact_value, format) ==
    IF IsNone(format) \/ Get(format) = <<>> THEN VStr(fact_value)
    ELSE IF StartsWith(Get(format), <<"i", "x", "t", ":">>)
    THEN _normalize_transformed_value(fact_value, Split(Get(format), ":")[2])
    ELSE VStr(fact_value)

\* _extract_non_numeric_value(fact_elem): the str returned, None, or the
\* exception raised; ChildrenText is the loop "fact_value += ..." over the
\* children, which raises TypeError when a child's value is None
RECURSIVE _extract_non_numeric_value(_), ChildrenText(_, _)
ChildrenText(fact_value, children) ==
    IF children = <<>> THEN VStr(fact_value)
    ELSE LET c == _extract_non_numeric_value(Head(children)) IN
         IF c.kind = "raise" THEN c
         ELSE IF c.kind = "None" THEN VRaise("TypeError")
         ELSE ChildrenText(fact_value \o c.str, Tail(children))

_extract_non_numeric_value(fact_elem) ==
    LET t == ChildrenText(IF IsNone(fact_elem.text) THEN <<>> ELSE Get(fact_elem.text),
                          fact_elem.children)
    IN  IF t.kind = "raise" THEN t ELSE ApplyFormat(t.str, fact_elem.format)

\* _extract_non_fraction_value(fact_elem).  Line 547 evaluates
\* fact_elem.attrib['ns_map']['xsi'] first: an lxml attribute is a str, so
\* attrib['ns_map'] raises KeyError when the element has no attribute of that
\* name and is a str otherwise, and indexing a str by 'xsi' raises TypeError.
\* Lines 548-574 (the nil test, the text, the format, the scaling) are never
\* reached.
_extract_non_fraction_value(fact_elem) ==
    IF IsNone(fact_elem.ns_map_attr) THEN VRaise("KeyError") ELSE VRaise("TypeError")

(***************************************************************************)
(* The fact loops of parse_xbrl and parse_ixbrl                            *)
(***************************************************************************)
\* src is the position of the element a fact was built from: bookkeeping of the
\* model, not a field of AbstractFact.  A NumericFact's value is None or
\* Some(tenths); a TextFact's value is Some(its text).
NumericFact(concept, context, value, unit, decimals, src) ==
    [kind |-> "numeric", concept |-> concept, context |-> context, value |-> value,
     unit |-> Some(unit), decimals |-> decimals, src |-> src]
TextFact(concept, context, value, src) ==
    [kind |-> "text", concept |-> concept, context |-> context, value |-> Some(value),
     unit |-> None, decimals |-> None, src |-> src]

\* What one pass of a fact loop does: "skip" (continue), "append" (facts.append)
\* or "raise", with ns_map and taxonomy.imports as the pass left them.
Skip(nm, imps) == [kind |-> "skip", fact |-> <<>>, err |-> "", ns_map |-> nm, imports |-> imps]
AppendFact(f, nm, imps) == [kind |-> "append", fact |-> f, err |-> "", ns_map |-> nm, imports |-> imps]
Raised(e, nm, imps) == [kind |-> "raise", fact |-> <<>>, err |-> e, ns_map |-> nm, imports |-> imps]

\* Lines 347-348 and 437-438: "decimals_text = str(...).strip();
\* decimals = None if decimals_text.lower() == 'inf' else int(decimals_text)"
DecodeDecimals(decimals_attr) ==
    LET decimals_text == Strip(decimals_attr) IN
    IF Lower(decimals_text) = <<"i", "n", "f">> THEN Ok(None)
    ELSE LET n == PyInt(decimals_text) IN
         IF n.ok THEN Ok(Some(n.val)) ELSE Raise(n.err)

\* Lines 319-330 with line 329 reading "if fact_elem.text is None:"
IsSkippedKeepBlank(fact_elem) ==
    \/ fact_elem.node # "element"
    \/ Contains(fact_elem.tag, <<"c", "o", "n", "t", "e", "x", "t">>)
    \/ Contains(fact_elem.tag, <<"u", "n", "i", "t">>)
    \/ Contains(fact_elem.tag, <<"s", "c", "h", "e", "m", "a", "R", "e", "f">>)
    \/ IsNone(fact_elem.contextRef)
    \/ IsNone(fact_elem.text)

\* Lines 319-330: whether the loop of parse_xbrl skips the element
IsSkipped(fact_elem) ==
    \/ fact_elem.node # "element"
    \/ Contains(fact_elem.tag, <<"c", "o", "n", "t", "e", "x", "t">>)
    \/ Contains(fact_elem.tag, <<"u", "n", "i", "t">>)
    \/ Contains(fact_elem.tag, <<"s", "c", "h", "e", "m", "a", "R", "e", "f">>)
    \/ IsNone(fact_elem.contextRef)
    \/ IsNone(fact_elem.text)
    \/ Len(Strip(Get(fact_elem.text))) = 0

\* Lines 317-353: one pass of the loop of parse_xbrl, for the child at position src
XbrlFactStep(fact_elem, src, nm, imps, cdir, udir) ==
    IF IsSkipped(fact_elem) THEN Skip(nm, imps)
    ELSE
    LET parts == Split(fact_elem.tag, "}") IN
    IF Len(parts) # 2 THEN Raised("ValueError", nm, imps)
    ELSE
    LET taxonomy_ns == Replace(parts[1], "{", <<>>)
        concept_name == parts[2]
        tax == ResolveTaxonomy(imps, taxonomy_ns)
    IN
    IF ~tax.ok THEN Raised(tax.err, nm, tax.imports)
    ELSE IF ~HasConcept(tax.tax, concept_name) THEN Raised("KeyError", nm, tax.imports)
    ELSE IF Get(fact_elem.contextRef) \notin DOMAIN cdir THEN Raised("KeyError", nm, tax.imports)
    ELSE
    LET concept == Concept(tax.tax, concept_name)
        context == cdir[Get(fact_elem.contextRef)]
    IN
    IF IsNone(fact_elem.unitRef)
    THEN AppendFact(TextFact(concept, context, Strip(Get(fact_elem.text)), src), nm, tax.imports)
    ELSE IF Get(fact_elem.unitRef) \notin DOMAIN udir THEN Raised("KeyError", nm, tax.imports)
    ELSE IF IsNone(fact_elem.decimals) THEN Raised("KeyError", nm, tax.imports)
    ELSE
    LET decimals == DecodeDecimals(Get(fact_elem.decimals))
        value == PyFloat(Get(fact_elem.text))
    IN
    IF ~decimals.ok THEN Raised(decimals.err, nm, tax.imports)
    ELSE IF ~value.ok THEN Raised(value.err, nm, tax.imports)
    ELSE AppendFact(NumericFact(concept, context, Some(value.val),
                                udir[Get(fact_elem.unitRef)], decimals.val, src),
                    nm, tax.imports)

\* '{' + ns_map['ix'] + '}nonFraction' and '{' + ns_map['ix'] + '}nonNumeric'
IxTag(nm, local) == <<"{">> \o nm[<<"i", "x">>] \o <<"}">> \o local
nonFraction == <<"n", "o", "n", "F", "r", "a", "c", "t", "i", "o", "n">>
nonNumeric == <<"n", "o", "n", "N", "u", "m", "e", "r", "i", "c">>

\* Lines 420-443: one pass of the loop of parse_ixbrl
IxbrlFactStep(fact_elem, src, nm0, imps, cdir, udir) ==
    LET nm == _update_ns_map(nm0, fact_elem.nsmap)
        parts == IF IsNone(fact_elem.name) THEN <<>> ELSE Split(Get(fact_elem.name), ":")
    IN
    IF IsNone(fact_elem.name) THEN Raised("KeyError", nm, imps)
    ELSE IF Len(parts) # 2 THEN Raised("ValueError", nm, imps)
    ELSE IF parts[1] \notin DOMAIN nm THEN Raised("KeyError", nm, imps)
    ELSE
    LET tax == ResolveTaxonomy(imps, nm[parts[1]]) IN
    IF ~tax.ok THEN Raised(tax.err, nm, tax.imports)
    ELSE IF ~HasConcept(tax.tax, parts[2]) THEN Raised("KeyError", nm, tax.imports)
    ELSE IF IsNone(fact_elem.contextRef) THEN Raised("KeyError", nm, tax.imports)
    ELSE IF Get(fact_elem.contextRef) \notin DOMAIN cdir THEN Raised("KeyError", nm, tax.imports)
    ELSE
    LET concept == Concept(tax.tax, parts[2])
        context == cdir[Get(fact_elem.contextRef)]
    IN
    IF fact_elem.tag = IxTag(nm, nonFraction) THEN
        LET fact_value == _extract_non_fraction_value(fact_elem)
            decimals == DecodeDecimals(IF IsNone(fact_elem.decimals) THEN <<"0">>
                                       ELSE Get(fact_elem.decimals))
        IN  IF fact_value.kind = "raise" THEN Raised(fact_value.err, nm, tax.imports)
            ELSE IF IsNone(fact_elem.unitRef) \/ Get(fact_elem.unitRef) \notin DOMAIN udir
            THEN Raised("KeyError", nm, tax.imports)
            ELSE IF ~decimals.ok THEN Raised(decimals.err, nm, tax.imports)
            ELSE AppendFact(NumericFact(concept, context,
                                        IF fact_value.kind = "None" THEN None
                                        ELSE Some(fact_value.num),
                                        udir[Get(fact_elem.unitRef)], decimals.val, src),
                            nm, tax.imports)
    ELSE IF fact_elem.tag = IxTag(nm, nonNumeric) THEN
        LET fact_value == _extract_non_numeric_value(fact_elem) IN
        IF fact_value.kind = "raise" THEN Raised(fact_value.err, nm, tax.imports)
        ELSE AppendFact(TextFact(concept, context, StrOf(IF fact_value.kind = "None" THEN None
                                                         ELSE Some(fact_value.str)), src),
                        nm, tax.imports)
    ELSE Skip(nm, tax.imports)

(***************************************************************************)
(* The documents                                                           *)
(***************************************************************************)
\* Namespaces: I is http://www.xbrl.org/2003/instance, L is
\* http://www.xbrl.org/2003/linkbase, IX the inline XBRL namespace, G the
\* instance's own taxonomy, D a common taxonomy, X a namespace of no taxonomy.
ContextTag == <<"{", "I", "}", "c", "o", "n", "t", "e", "x", "t">>
UnitTag == <<"{", "I", "}", "u", "n", "i", "t">>
SchemaRefTag == <<"{", "L", "}", "s", "c", "h", "e", "m", "a", "R", "e", "f">>

\* root.nsmap: the prefixes the root element declares
RootNsmap ==
    [p \in {<<"i">>, <<"i", "x">>, <<"g">>, <<"d">>, <<"x">>} |->
        IF p = <<"i", "x">> THEN <<"I", "X">> ELSE <<UpperChars[CHOOSE k \in 1..26 : LowerChars[k] = p[1]]>>]

SchemaRefElem == [Elem EXCEPT !.tag = SchemaRefTag, !.href = Some(<<"t", ".", "x", "s", "d">>)]

Identifier == Some(Some(<<" ", "0", "0", "0", "1", " ">>))
CtxInstant(id) ==
    [Elem EXCEPT !.tag = ContextTag, !.id = Some(id), !.identifier = Identifier,
                 !.instant = Some(Some(<<"2", "0", "2", "0", "-", "1", "2", "-", "3", "1">>))]
CtxForever(id) ==
    [Elem EXCEPT !.tag = ContextTag, !.id = Some(id), !.identifier = Identifier, !.forever = TRUE]
CtxDuration(id) ==
    [Elem EXCEPT !.tag = ContextTag, !.id = Some(id), !.identifier = Identifier,
                 !.startDate = Some(Some(<<"2", "0", "2", "0", "-", "0", "1", "-", "0", "1">>)), !.endDate = Some(Some(<<" ", "2", "0", "2", "0", "-", "2", "-", "2", "9", " ">>))]
\* an explicit member whose member concept lives in the common taxonomy D, under a
\* prefix the element itself declares
MemberElem ==
    [Elem EXCEPT !.dimension = Some(<<"g", ":", "A", "x", "i", "s">>), !.text = Some(<<" ", "e", ":", "M", "e", "m", "b", "e", "r", " ">>),
                 !.nsmap = [p \in {<<"e">>, <<"g">>} |-> IF p = <<"e">> THEN <<"D">> ELSE <<"X">>]]
CtxSegment(id) == [CtxDuration(id) EXCEPT !.segment = Some(<<MemberElem>>)]
\* malformed contexts: two period markers, none, a start without an end, a bad date
CtxTwoMarkers(id) == [CtxInstant(id) EXCEPT !.forever = TRUE]
CtxNoMarker(id) == [Elem EXCEPT !.tag = ContextTag, !.id = Some(id), !.identifier = Identifier]
CtxStartOnly(id) == [CtxNoMarker(id) EXCEPT !.startDate = Some(Some(<<"2", "0", "2", "0", "-", "0", "1", "-", "0", "1">>))]
CtxBadDate(id) == [CtxNoMarker(id) EXCEPT !.instant = Some(Some(<<"2", "0", "2", "0", "-", "0", "2", "-", "3", "0">>))]

UnitSimple(id) == [Elem EXCEPT !.tag = UnitTag, !.id = Some(id), !.measure = Some(Some(<<"i", "s", "o", ":", "U", "S", "D">>))]
UnitDivide(id) ==
    [Elem EXCEPT !.tag = UnitTag, !.id = Some(id),
                 !.divide = Some([numerator |-> Some(Some(<<"i", "s", "o", ":", "U", "S", "D">>)),
                                  denominator |-> Some(Some(<<"i", ":", "s", "h", "a", "r", "e", "s">>))])]
UnitEmpty(id) == [Elem EXCEPT !.tag = UnitTag, !.id = Some(id)]

\* The declarations a document starts with
GoodHeads ==
    {<<SchemaRefElem, CtxInstant("c1"), UnitSimple("u1")>>,
     <<SchemaRefElem, CtxInstant("c1"), CtxForever("c1"), UnitSimple("u1"), UnitDivide("u1")>>,
     <<SchemaRefElem, CtxSegment("c2"), CtxForever("c1"), UnitDivide("u1")>>,
     <<SchemaRefElem, CtxTwoMarkers("c1"), UnitSimple("u1")>>}
BadHeads ==
    {<<CtxInstant("c1"), UnitSimple("u1")>>,
     <<SchemaRefElem, CtxNoMarker("c1"), UnitSimple("u1")>>,
     <<SchemaRefElem, CtxStartOnly("c1"), UnitSimple("u1")>>,
     <<SchemaRefElem, CtxBadDate("c1"), UnitSimple("u1")>>,
     <<SchemaRefElem, CtxInstant("c1"), UnitSimple("u1"), UnitEmpty("u2")>>}

\* The other top-level children of an XBRL instance
XFact(tag, contextRef, text) ==
    [Elem EXCEPT !.tag = tag, !.contextRef = contextRef, !.text = text]
XNumeric(tag, contextRef, unitRef, decimals, text) ==
    [XFact(tag, contextRef, text) EXCEPT !.unitRef = unitRef, !.decimals = decimals]
Assets == <<"{", "G", "}", "A", "s", "s", "e", "t", "s">>
XbrlPool ==
    {XNumeric(Assets, Some("c1"), Some("u1"), Some(<<"-", "3">>), Some(<<"1", "0", "0">>)),
     XNumeric(Assets, Some("c1"), Some("u1"), Some(<<" ", "I", "n", "f", " ">>), Some(<<"5", ".", "5">>)),
     XNumeric(Assets, Some("c1"), Some("u1"), Some(<<"1", ".", "5">>), Some(<<"1">>)),
     XNumeric(Assets, Some("c1"), Some("u1"), None, Some(<<"1">>)),
     XNumeric(Assets, Some("c1"), Some("u9"), Some(<<"0">>), Some(<<" ", " ">>)),
     XFact(<<"{", "D", "}", "N", "a", "m", "e">>, Some("c1"), Some(<<" ", "A", "c", "m", "e", " ">>)),
     XFact(<<"{", "G", "}", "O", "p", "p", "o", "r", "t", "u", "n", "i", "t", "y">>, Some("c1"), Some(<<"7">>)),
     XFact(Assets, Some("c9"), Some(<<"1">>)),
     XFact(Assets, Some("c9"), None),
     XFact(Assets, None, Some(<<"1">>)),
     XFact(<<"{", "X", "}", "F", "o", "o">>, Some("c1"), Some(<<"1">>)),
     [Elem EXCEPT !.node = "comment"],
     CtxInstant("c3")}

\* The ix:nonFraction and ix:nonNumeric elements of an inline document
IxFact(local, name, contextRef, text) ==
    [Elem EXCEPT !.tag = IxTag(RootNsmap, local), !.name = name, !.contextRef = contextRef,
                 !.text = text]
IxNumeric(name, contextRef, unitRef, text) ==
    [IxFact(nonFraction, name, contextRef, text) EXCEPT !.unitRef = unitRef]
IxbrlPool ==
    {[IxNumeric(Some(<<"g", ":", "A", "s", "s", "e", "t", "s">>), Some("c1"), Some("u1"), Some(<<"1", "0", "0">>))
         EXCEPT !.decimals = Some(<<"-", "3">>), !.scale = <<<<"3">>>>],
     [IxNumeric(Some(<<"g", ":", "A", "s", "s", "e", "t", "s">>), Some("c1"), Some("u1"), None) EXCEPT !.nil = Some(<<"t", "r", "u", "e">>)],
     [IxNumeric(Some(<<"g", ":", "A", "s", "s", "e", "t", "s">>), Some("c1"), Some("u1"), Some(<<"5">>))
         EXCEPT !.ns_map_attr = Some(<<"x">>)],
     IxFact(nonNumeric, Some(<<"d", ":", "N", "a", "m", "e">>), Some("c1"), Some(<<"A", "c", "m", "e">>)),
     [IxFact(nonNumeric, Some(<<"g", ":", "A", "s", "s", "e", "t", "s">>), Some("c1"), Some(<<"Y", "e", "s">>))
         EXCEPT !.format = Some(<<"i", "x", "t", ":", "b", "o", "o", "l", "e", "a", "n", "t", "r", "u", "e">>)],
     [IxFact(nonNumeric, Some(<<"g", ":", "A", "s", "s", "e", "t", "s">>), Some("c1"), Some(<<"A">>))
         EXCEPT !.children = <<[Elem EXCEPT !.tag = <<"b">>, !.text = Some(<<"b">>)]>>],
     [IxFact(nonNumeric, Some(<<"e", ":", "N", "a", "m", "e">>), Some("c1"), Some(<<"D", "e", "c", " ", "3", "1">>))
         EXCEPT !.format = Some(<<"i", "x", "t", ":", "d", "a", "t", "e", "m", "o", "n", "t", "h", "d", "a", "y", "e", "n">>),
                !.nsmap = [p \in {<<"e">>, <<"g">>} |-> IF p = <<"e">> THEN <<"D">> ELSE <<"X">>]],
     [IxFact(nonNumeric, Some(<<"g", ":", "A", "s", "s", "e", "t", "s">>), Some("c1"), Some(<<"1">>))
         EXCEPT !.format = Some(<<"i", "x", "t", ":", "d", "a", "t", "e", "f", "o", "o">>)],
     [IxFact(nonNumeric, Some(<<"g", ":", "A", "s", "s", "e", "t", "s">>), Some("c1"), Some(<<"1">>))
         EXCEPT !.format = Some(<<"i", "x", "t", ":", "f", "o", "o">>)],
     IxFact(nonNumeric, Some(<<"g", ":", "A", "s", "s", "e", "t", "s">>), Some("c9"), Some(<<"1">>)),
     IxFact(nonNumeric, Some(<<"g", ":", "B", "o", "g", "u", "s">>), Some("c1"), Some(<<"1">>)),
     [IxNumeric(Some(<<"g", ":", "A", "s", "s", "e", "t", "s">>), Some("c1"), Some("u1"), Some(<<"n", "o">>))
         EXCEPT !.format = Some(<<"i", "x", "t", "-", "s", "e", "c", ":", "n", "u", "m", "w", "o", "r", "d", "s", "e", "n">>)]}

\* the longest list of fact elements a document holds besides its declarations
MaxBody == 2

RECURSIVE SeqsUpTo(_, _)
SeqsUpTo(S, n) ==
    IF n = 0 THEN {<<>>}
    ELSE LET shorter == SeqsUpTo(S, n - 1) IN
         shorter \cup {Append(q, x) : q \in shorter, x \in S}

\* A document: the root's namespace map; for parse_xbrl the root's children; for
\* parse_ixbrl the schemaRef element, the children of the ix:resources element
\* (None when the document has no such element) and the inline fact elements in
\* document order.
XbrlDoc(children) ==
    [nsmap |-> RootNsmap, children |-> children, schemaRef |-> None, resources |-> None]
IxbrlDoc(head, children) ==
    [nsmap |-> RootNsmap, children |-> children,
     schemaRef |-> IF Head(head) = SchemaRefElem THEN Some(SchemaRefElem) ELSE None,
     resources |-> Some(SelectSeq(head, LAMBDA e : e # SchemaRefElem))]

XbrlDocs ==
    {XbrlDoc(h \o b) : h \in GoodHeads, b \in SeqsUpTo(XbrlPool, MaxBody)}
    \cup {XbrlDoc(h \o b) : h \in BadHeads, b \in SeqsUpTo(XbrlPool, 1)}
IxbrlDocs ==
    {IxbrlDoc(h, b) : h \in GoodHeads, b \in SeqsUpTo(IxbrlPool, MaxBody)}
    \cup {IxbrlDoc(h, b) : h \in BadHeads, b \in SeqsUpTo(IxbrlPool, 1)}
    \cup {[IxbrlDoc(h, b) EXCEPT !.resources = None] :
            h \in {<<SchemaRefElem>>}, b \in SeqsUpTo(IxbrlPool, 1)}

(***************************************************************************)
(* parse_xbrl and parse_ixbrl                                              *)
(***************************************************************************)
IsElem(e, tag) == e.node = "element" /\ e.tag = tag
FindAll(elems, tag) == SelectSeq(elems, LAMBDA e : IsElem(e, tag))

\* tree.find('.//{link}schemaRef')
SchemaRef(m, d) ==
    IF m = "xbrl"
    THEN (IF FindAll(d.children, SchemaRefTag) = <<>> THEN None
          ELSE Some(Head(FindAll(d.children, SchemaRefTag))))
    ELSE d.schemaRef

\* the children the context and unit declarations are looked up among: the root's
\* (parse_xbrl) or those of the ix:resources element (parse_ixbrl)
Declarations(m, d) == IF m = "xbrl" THEN d.children ELSE Get(d.resources)
ContextElements(m, d) == FindAll(Declarations(m, d), ContextTag)
UnitElements(m, d) == FindAll(Declarations(m, d), UnitTag)

\* the elements the fact loop runs over: every child of the root (parse_xbrl);
\* the ix:nonFraction elements followed by the ix:nonNumeric elements (line 419)
FactElements(m, d) ==
    IF m = "xbrl" THEN d.children
    ELSE FindAll(d.children, IxTag(d.nsmap, nonFraction))
         \o FindAll(d.children, IxTag(d.nsmap, nonNumeric))

\* the position in d.children of the k-th element of FactElements
RECURSIVE Positions(_, _, _)
Positions(elems, tag, from) ==
    IF elems = <<>> THEN <<>>
    ELSE (IF IsElem(Head(elems), tag) THEN <<from>> ELSE <<>>)
         \o Positions(Tail(elems), tag, from + 1)
FactPositions(m, d) ==
    IF m = "xbrl" THEN [k \in 1..Len(d.children) |-> k]
    ELSE Positions(d.children, IxTag(d.nsmap, nonFraction), 1)
         \o Positions(d.children, IxTag(d.nsmap, nonNumeric), 1)

Exception(e) ==
    [kind |-> "raise", err |-> e, facts |-> <<>>, context_map |-> EmptyDict, unit_map |-> EmptyDict]
XbrlInstance(fs, context_map, unit_map) ==
    [kind |-> "instance", err |-> "", facts |-> fs, context_map |-> context_map,
     unit_map |-> unit_map]

Init ==
    /\ mode \in {"xbrl", "ixbrl"}
    /\ doc \in (IF mode = "xbrl" THEN XbrlDocs ELSE IxbrlDocs)
    /\ pc = "start"
    /\ ctx_i = 0 /\ idx = 0
    /\ ns_map = EmptyDict /\ imports = <<>>
    /\ context_dir = EmptyDict /\ unit_dir = EmptyDict
    /\ facts = <<>> /\ result = None
    /\ call = Elem /\ ret = None
    /\ uri_cache = EmptyDict

\* the call raises: it ends with the exception and returns nothing
Fail(e) == pc' = "error" /\ result' = Some(Exception(e))

\* Lines 291-309 and 390-407: the namespace map of the root, the schemaRef and
\* the taxonomy it names (loaded by xbrl.taxonomy)
LoadTaxonomy ==
    /\ pc = "start"
    /\ ns_map' = doc.nsmap
    /\ IF IsNone(SchemaRef(mode, doc)) THEN Fail("AttributeError")
       ELSE IF IsNone(Get(SchemaRef(mode, doc)).href) THEN Fail("KeyError")
       ELSE /\ pc' = IF mode = "xbrl" THEN "contexts" ELSE "resources"
            /\ UNCHANGED result
    /\ UNCHANGED <<mode, doc, ctx_i, idx, imports, context_dir, unit_dir, facts, call, ret, uri_cache>>

\* Lines 410-411: the ix:resources element
FindResources ==
    /\ pc = "resources"
    /\ IF <<"i", "x">> \notin DOMAIN ns_map THEN Fail("SyntaxError")
       ELSE IF IsNone(doc.resources) THEN Fail("InstanceParseException")
       ELSE pc' = "contexts" /\ UNCHANGED result
    /\ UNCHANGED <<mode, doc, ctx_i, idx, ns_map, imports, context_dir, unit_dir, facts, call, ret, uri_cache>>

\* One pass of the loop of _parse_context_elements (lines 686-737)
ParseContextElement ==
    /\ pc = "contexts"
    /\ ctx_i < Len(ContextElements(mode, doc))
    /\ LET r == ContextElementStep(ContextElements(mode, doc)[ctx_i + 1], ns_map, imports) IN
       /\ ns_map' = r.ns_map
       /\ imports' = r.imports
       /\ IF r.ok
          THEN /\ context_dir' = Put(context_dir, Get(ContextElements(mode, doc)[ctx_i + 1].id), r.val)
               /\ ctx_i' = ctx_i + 1
               /\ UNCHANGED <<pc, result>>
          ELSE Fail(r.err) /\ UNCHANGED <<context_dir, ctx_i>>
    /\ UNCHANGED <<mode, doc, idx, unit_dir, facts, call, ret, uri_cache>>

\* Line 738: _parse_context_elements returns context_dict
ContextsDone ==
    /\ pc = "contexts"
    /\ ctx_i = Len(ContextElements(mode, doc))
    /\ pc' = "units"
    /\ ctx_i' = 0
    /\ UNCHANGED <<mode, doc, idx, ns_map, imports, context_dir, unit_dir, facts, result, call, ret, uri_cache>>

\* One pass of the loop of _parse_unit_elements (lines 761-773)
ParseUnitElement ==
    /\ pc = "units"
    /\ ctx_i < Len(UnitElements(mode, doc))
    /\ LET r == UnitElementStep(UnitElements(mode, doc)[ctx_i + 1]) IN
       IF r.ok
       THEN /\ unit_dir' = Put(unit_dir, Get(UnitElements(mode, doc)[ctx_i + 1].id), r.val)
            /\ ctx_i' = ctx_i + 1
            /\ UNCHANGED <<pc, result>>
       ELSE Fail(r.err) /\ UNCHANGED <<unit_dir, ctx_i>>
    /\ UNCHANGED <<mode, doc, idx, ns_map, imports, context_dir, facts, call, ret, uri_cache>>

\* Line 774: _parse_unit_elements returns unit_dict
UnitsDone ==
    /\ pc = "units"
    /\ ctx_i = Len(UnitElements(mode, doc))
    /\ pc' = "facts"
    /\ ctx_i' = 0
    /\ UNCHANGED <<mode, doc, idx, ns_map, imports, context_dir, unit_dir, facts, result, call, ret, uri_cache>>

\* A fact loop that logs a failing element and continues with the next one
FactPassSkipFailing(r) ==
    /\ ns_map' = r.ns_map
    /\ imports' = r.imports
    /\ facts' = IF r.kind = "append" THEN Append(facts, r.fact) ELSE facts
    /\ idx' = idx + 1
    /\ UNCHANGED <<pc, result>>
    /\ UNCHANGED <<mode, doc, ctx_i, context_dir, unit_dir, call, ret, uri_cache>>

\* What a pass of a fact loop does to the state
FactPass(r) ==
    /\ ns_map' = r.ns_map
    /\ imports' = r.imports
    /\ IF r.kind = "raise" THEN Fail(r.err) /\ UNCHANGED <<facts, idx>>
       ELSE /\ facts' = IF r.kind = "append" THEN Append(facts, r.fact) ELSE facts
            /\ idx' = idx + 1
            /\ UNCHANGED <<pc, result>>
    /\ UNCHANGED <<mode, doc, ctx_i, context_dir, unit_dir, call, ret, uri_cache>>

\* One pass of the loop of parse_xbrl (lines 317-353)
XbrlFact ==
    /\ mode = "xbrl"
    /\ pc = "facts"
    /\ idx < Len(FactElements(mode, doc))
    /\ FactPass(XbrlFactStep(FactElements(mode, doc)[idx + 1], FactPositions(mode, doc)[idx + 1],
                             ns_map, imports, context_dir, unit_dir))

\* One pass of the loop of parse_ixbrl (lines 420-443)
IxbrlFact ==
    /\ mode = "ixbrl"
    /\ pc = "facts"
    /\ idx < Len(FactElements(mode, doc))
    /\ FactPass(IxbrlFactStep(FactElements(mode, doc)[idx + 1], FactPositions(mode, doc)[idx + 1],
                              ns_map, imports, context_dir, unit_dir))

\* Lines 355 and 445: the XbrlInstance is built and returned
Return ==
    /\ pc = "facts"
    /\ idx = Len(FactElements(mode, doc))
    /\ pc' = "done"
    /\ result' = Some(XbrlInstance(facts, context_dir, unit_dir))
    /\ UNCHANGED <<mode, doc, ctx_i, idx, ns_map, imports, context_dir, unit_dir, facts, call, ret, uri_cache>>

Next ==
    \/ LoadTaxonomy
    \/ FindResources
    \/ ParseContextElement
    \/ ContextsDone
    \/ ParseUnitElement
    \/ UnitsDone
    \/ XbrlFact
    \/ IxbrlFact
    \/ Return

Spec == Init /\ [][Next]_vars

(***************************************************************************)
(* Claims about parse_xbrl and parse_ixbrl                                 *)
(***************************************************************************)
Returned == ~IsNone(result) /\ Get(result).kind = "instance"
Instance == Get(result)
InFactLoop == pc = "facts" /\ idx < Len(FactElements(mode, doc))
CurrentElem == FactElements(mode, doc)[idx + 1]
SrcOf(fs) == [i \in 1..Len(fs) |-> fs[i].src]
\* the pass has appended one fact
Appended == pc' = "facts" /\ Len(facts') = Len(facts) + 1
LastFact == facts'[Len(facts')]

\* The lookups of an XBRL fact element: namespace, concept, context and, for an
\* element with a unitRef, unit
XbrlLooksUp(e, cmap, umap) ==
    LET parts == Split(e.tag, "}") IN
    /\ Len(parts) = 2
    /\ Replace(parts[1], "{", <<>>) \in PrimaryNs \cup CommonNs
    /\ parts[2] \in ConceptNames(Replace(parts[1], "{", <<>>))
    /\ Get(e.contextRef) \in DOMAIN cmap
    /\ ~IsNone(e.unitRef) => Get(e.unitRef) \in DOMAIN umap
XbrlResolves(e, cmap, umap) ==
    /\ XbrlLooksUp(e, cmap, umap)
    /\ ~IsNone(e.unitRef) =>
          /\ ~IsNone(e.decimals)
          /\ DecodeDecimals(Get(e.decimals)).ok
          /\ PyFloat(Get(e.text)).ok

\* The lookups of an inline fact element under the prefixes nm and its own
IxLooksUp(e, nm, cmap, umap) ==
    LET parts == IF IsNone(e.name) THEN <<>> ELSE Split(Get(e.name), ":")
        prefixes == _update_ns_map(nm, e.nsmap)
    IN  /\ Len(parts) = 2
        /\ parts[1] \in DOMAIN prefixes
        /\ prefixes[parts[1]] \in PrimaryNs \cup CommonNs
        /\ parts[2] \in ConceptNames(prefixes[parts[1]])
        /\ ~IsNone(e.contextRef)
        /\ Get(e.contextRef) \in DOMAIN cmap
        /\ e.tag = IxTag(nm, nonFraction) =>
              ~IsNone(e.unitRef) /\ Get(e.unitRef) \in DOMAIN umap
IxResolves(e, nm, cmap, umap) ==
    /\ IxLooksUp(e, nm, cmap, umap)
    /\ IF e.tag = IxTag(nm, nonFraction)
       THEN /\ _extract_non_fraction_value(e).kind # "raise"
            /\ IsNone(e.decimals) \/ DecodeDecimals(Get(e.decimals)).ok
       ELSE _extract_non_numeric_value(e).kind # "raise"

\* C3: a failure of a fact's taxonomy, concept, context, unit, decimals or value
\* resolution (or, for parse_ixbrl, a missing ix:resources element) ends the
\* call with an error and no Instance: whenever an Instance is returned, every
\* element the fact loop did not skip resolved and has its fact in the list.
C3_ErrorsAbort ==
    /\ pc = "error" => ~IsNone(result) /\ Get(result).kind = "raise"
    /\ (mode = "ixbrl" /\ IsNone(doc.resources)) => pc \in {"start", "resources", "error"}
    /\ Returned =>
          /\ pc = "done"
          /\ \A k \in 1..Len(FactElements(mode, doc)) :
                LET e == FactElements(mode, doc)[k] IN
                IF mode = "xbrl"
                THEN ~IsSkipped(e) =>
                        /\ XbrlResolves(e, Instance.context_map, Instance.unit_map)
                        /\ \E i \in 1..Len(Instance.facts) : Instance.facts[i].src = k
                ELSE /\ IxResolves(e, ns_map, Instance.context_map, Instance.unit_map)
                     /\ \E i \in 1..Len(Instance.facts) :
                           Instance.facts[i].src = FactPositions(mode, doc)[k]

\* C3 witness: parse_xbrl raised at a fact element after an earlier element
\* had given a fact.
C3_Witness ==
    /\ mode = "xbrl" /\ pc = "error"
    /\ Len(facts) = 1
    /\ idx < Len(doc.children) /\ ~IsSkipped(doc.children[idx + 1])
    /\ Get(result).kind = "raise"

\* C4: in a returned Instance each fact's context is the context table's entry
\* under the fact's contextRef, each numeric fact's unit is the unit table's
\* entry under its unitRef, and every entry of either table has the id it is
\* stored under, also when the document repeats an id.
C4_TableEntries ==
    Returned =>
        /\ \A i \in 1..Len(Instance.facts) :
              LET f == Instance.facts[i]
                  e == doc.children[f.src]
              IN  /\ f.context = Instance.context_map[Get(e.contextRef)]
                  /\ f.kind = "numeric" => Get(f.unit) = Instance.unit_map[Get(e.unitRef)]
        /\ \A k \in DOMAIN Instance.context_map : Instance.context_map[k].xml_id = k
        /\ \A k \in DOMAIN Instance.unit_map : Instance.unit_map[k].unit_id = k

\* C4 witness: an Instance with a numeric fact, from a document that declares
\* a context id and a unit id twice.
C4_Witness ==
    /\ Returned
    /\ \E i \in 1..Len(Instance.facts) : Instance.facts[i].kind = "numeric"
    /\ Len(ContextElements(mode, doc)) > Cardinality(DOMAIN Instance.context_map)
    /\ Len(UnitElements(mode, doc)) > Cardinality(DOMAIN Instance.unit_map)

\* the period markers a context element carries
Markers(e) ==
    (IF ~IsNone(e.instant) THEN 1 ELSE 0) + (IF e.forever THEN 1 ELSE 0)
    + (IF ~IsNone(e.startDate) /\ ~IsNone(e.endDate) THEN 1 ELSE 0)
MarkedKind(e) ==
    IF ~IsNone(e.instant) THEN "instant" ELSE IF e.forever THEN "forever" ELSE "timeframe"

\* C5 as stated: a context element with exactly one period marker yields the
\* context of that kind, and one with no marker or with more than one marker
\* makes the parse fail instead of yielding a context.
C5_Original ==
    [][(pc = "contexts" /\ ctx_i < Len(ContextElements(mode, doc))) =>
        LET e == ContextElements(mode, doc)[ctx_i + 1] IN
        IF Markers(e) = 1
        THEN pc' = "contexts" => context_dir'[Get(e.id)].kind = MarkedKind(e)
        ELSE pc' = "error"]_vars

\* the top-level children C6 says give a fact
IsDeclaration(e) == e.tag \in {ContextTag, UnitTag, SchemaRefTag}
IsFactElement(e) ==
    /\ e.node = "element"
    /\ ~IsDeclaration(e)
    /\ ~IsNone(e.contextRef)
    /\ ~IsNone(e.text)
    /\ Strip(Get(e.text)) # <<>>
RECURSIVE FactElementPositions(_, _)
FactElementPositions(elems, from) ==
    IF elems = <<>> THEN <<>>
    ELSE (IF IsFactElement(Head(elems)) THEN <<from>> ELSE <<>>)
         \o FactElementPositions(Tail(elems), from + 1)

\* C6 as stated: the fact list of a successful parse_xbrl has exactly one fact
\* for every top-level element that is no context, unit or schemaRef
\* declaration and has a contextRef and non-blank text, in document order.
C6_Original ==
    (Returned /\ mode = "xbrl") =>
        SrcOf(Instance.facts) = FactElementPositions(doc.children, 1)

\* An inline fact element a valid document may hold: its concept, context and
\* unit resolve, an ix:nonFraction is nil or has the text of a number and its
\* decimals, when given, decode
IxWellFormed(e, nm, cmap, umap) ==
    /\ IxLooksUp(e, nm, cmap, umap)
    /\ IF e.tag = IxTag(nm, nonFraction)
       THEN /\ e.nil = Some(<<"t", "r", "u", "e">>) \/ PyFloat(StrOf(e.text)).ok
            /\ IsNone(e.decimals) \/ DecodeDecimals(Get(e.decimals)).ok
       ELSE _extract_non_numeric_value(e).kind # "raise"
KindOfElem(e, nm) == IF e.tag = IxTag(nm, nonFraction) THEN "numeric" ELSE "text"

C8_Original ==
    [][(/\ mode = "ixbrl" /\ InFactLoop
        /\ CurrentElem.tag = IxTag(ns_map, nonFraction)
        /\ CurrentElem.nil = Some(<<"t", "r", "u", "e">>)
        /\ IxLooksUp(CurrentElem, ns_map, context_dir, unit_dir)
        /\ IsNone(CurrentElem.decimals) \/ DecodeDecimals(Get(CurrentElem.decimals)).ok) =>
        /\ Appended
        /\ LastFact.kind = "numeric"
        /\ IsNone(LastFact.value)]_vars

\* a top-level element with a contextRef and absent, empty or whitespace-only text
BlankText(e) ==
    /\ e.node = "element"
    /\ ~IsNone(e.contextRef)
    /\ IsNone(e.text) \/ Strip(Get(e.text)) = <<>>

\* C9: the pass of parse_xbrl over an element with a contextRef and blank text
\* raises nothing and changes neither the fact list nor anything the passes
\* over the other elements read; no fact comes from such an element.
C9_BlankTextContributesNothing ==
    /\ [](mode = "xbrl" =>
            \A i \in 1..Len(facts) :
                ~BlankText(doc.children[facts[i].src]) /\ ~IsNone(facts[i].value))
    /\ [][(mode = "xbrl" /\ InFactLoop /\ BlankText(CurrentElem)) =>
            /\ pc' = "facts" /\ idx' = idx + 1
            /\ UNCHANGED <<facts, result, ns_map, imports, context_dir, unit_dir>>]_vars

\* C9 witness: parse_xbrl returned a fact from a document that also holds an
\* element with a contextRef whose text is whitespace only.
C9_Witness ==
    /\ mode = "xbrl" /\ Returned
    /\ Len(Instance.facts) >= 1
    /\ \E k \in 1..Len(doc.children) :
          BlankText(doc.children[k]) /\ ~IsNone(doc.children[k].text)

\* C10 as stated: the decimals text 'INF' in any letter case gives decimals
\* None, any other integer text gives that integer, non-integer text fails the
\* parse, and for parse_ixbrl a missing decimals attribute gives decimals 0.
C10_Original ==
    [][/\ (/\ mode = "xbrl" /\ InFactLoop
           /\ ~IsSkipped(CurrentElem)
           /\ ~IsNone(CurrentElem.unitRef) /\ ~IsNone(CurrentElem.decimals)
           /\ XbrlLooksUp(CurrentElem, context_dir, unit_dir)
           /\ PyFloat(Get(CurrentElem.text)).ok) =>
          LET decimals_text == Strip(Get(CurrentElem.decimals)) IN
          IF Lower(decimals_text) = <<"i", "n", "f">>
          THEN Appended /\ IsNone(LastFact.decimals)
          ELSE IF PyInt(decimals_text).ok
          THEN Appended /\ LastFact.decimals = Some(PyInt(decimals_text).val)
          ELSE pc' = "error"
       /\ (/\ mode = "ixbrl" /\ InFactLoop
           /\ CurrentElem.tag = IxTag(ns_map, nonFraction)
           /\ IsNone(CurrentElem.decimals)
           /\ IxWellFormed(CurrentElem, ns_map, context_dir, unit_dir)) =>
          Appended /\ LastFact.decimals = Some(0)]_vars

(***************************************************************************)
(* Direct calls of _normalize_transformed_value                            *)
(***************************************************************************)
\* the transform formats the function has a return statement for
SupportedFormats ==
    {<<"b", "o", "o", "l", "e", "a", "n", "f", "a", "l", "s", "e">>,
     <<"b", "o", "o", "l", "e", "a", "n", "t", "r", "u", "e">>,
     <<"z", "e", "r", "o", "d", "a", "s", "h">>,
     <<"n", "o", "c", "o", "n", "t", "e", "n", "t">>,
     <<"d", "a", "t", "e", "d", "a", "y", "m", "o", "n", "t", "h">>,
     <<"d", "a", "t", "e", "d", "a", "y", "m", "o", "n", "t", "h", "e", "n">>,
     <<"d", "a", "t", "e", "d", "a", "y", "m", "o", "n", "t", "h", "y", "e", "a", "r">>,
     <<"d", "a", "t", "e", "d", "a", "y", "m", "o", "n", "t", "h", "y", "e", "a", "r", "e", "n">>,
     <<"d", "a", "t", "e", "m", "o", "n", "t", "h", "d", "a", "y">>,
     <<"d", "a", "t", "e", "m", "o", "n", "t", "h", "d", "a", "y", "e", "n">>,
     <<"d", "a", "t", "e", "m", "o", "n", "t", "h", "d", "a", "y", "y", "e", "a", "r">>,
     <<"d", "a", "t", "e", "m", "o", "n", "t", "h", "d", "a", "y", "y", "e", "a", "r", "e", "n">>,
     <<"d", "a", "t", "e", "y", "e", "a", "r", "m", "o", "n", "t", "h", "d", "a", "y">>,
     <<"n", "u", "m", "c", "o", "m", "m", "a", "d", "e", "c", "i", "m", "a", "l">>,
     <<"n", "u", "m", "d", "o", "t", "d", "e", "c", "i", "m", "a", "l">>}
\* letter-case variants of supported formats, and formats of no branch
OtherFormats ==
    {<<"B", "o", "o", "l", "e", "a", "n", "T", "r", "u", "e">>,
     <<"Z", "E", "R", "O", "D", "A", "S", "H">>,
     <<"D", "a", "t", "e", "M", "o", "n", "t", "h", "D", "a", "y", "E", "n">>,
     <<"d", "a", "t", "e", "D", "a", "y", "M", "o", "n", "t", "h", "Y", "e", "a", "r">>,
     <<"N", "u", "m", "D", "o", "t", "D", "e", "c", "i", "m", "a", "l">>,
     <<"d", "a", "t", "e", "f", "o", "o">>,
     <<"n", "u", "m", "w", "o", "r", "d", "s", "e", "n">>,
     <<"f", "o", "o">>,
     <<>>}
NormTexts ==
    {<<"D", "e", "c", " ", "3", "1">>,
     <<" ", "D", "E", "C", ".", " ", "3", "1", " ">>,
     <<"D", "e", "c", "e", "m", "b", "e", "r", "-", "3", "1">>,
     <<"3", "1", " ", "1", "2", " ", "2", "0", "2", "1">>,
     <<"3", "1", ".", "1", "2", ".", "2", "1">>,
     <<"3", "1", "_", "1", "2">>,
     <<"3", "1", "-", "D", "e", "c", "-", "2", "0", "2", "1">>,
     <<"3", "1", " ", "d", "e", "c", "e", "m", "b", "e", "r", ",", " ", "2", "0", "2", "1">>,
     <<"1", "2", " ", "3", "1", " ", "2", "0", "2", "1">>,
     <<"D", "e", "c", " ", "3", "1", ",", " ", "2", "0", "2", "1">>,
     <<"D", "e", "c", "e", "m", "b", "e", "r", " ", "3", "1", " ", "2", "0", "2", "1">>,
     <<"2", "0", "2", "1", "-", "1", "2", "-", "3", "1">>,
     <<"5", " ", "3">>,
     <<"f", "e", "b", " ", "3", "0">>,
     <<"3", "1", " ", "1", "2">>,
     <<"1", ".", "2", "3", "4", ",", "5">>,
     <<"-", "1", ".", "2", "3", "4", ",", "5">>,
     <<"1", " ", "2", "3", "4", ",", "5">>,
     <<"1", ",", "2", "3", "4", ".", "5">>,
     <<"-", "1", ",", "2", "3", "4", ".", "5">>,
     <<"1", "2", "3", "4">>,
     <<"Y", "e", "s">>,
     <<>>}
NormCalls == [value : NormTexts, transform_format : SupportedFormats \cup OtherFormats]

InitNorm ==
    /\ Idle
    /\ call \in NormCalls
    /\ ret = None

\* one call of _normalize_transformed_value(call.value, call.transform_format)
NormalizeTransformedValue ==
    /\ ret = None
    /\ ret' = Some(_normalize_transformed_value(call.value, call.transform_format))
    /\ UNCHANGED <<parseVars, call, uri_cache>>

NextNorm == NormalizeTransformedValue

SpecNorm == InitNorm /\ [][NextNorm]_vars

(***************************************************************************)
(* Claims about the value normalizer (checked under SpecNorm)              *)
(***************************************************************************)
Returns(v) == ret # None /\ Get(ret) = v
NormCallIs(value, transform_format) ==
    call.value = value /\ call.transform_format = transform_format

\* C11 as stated: for every transform format that is not a supported keyword,
\* also one that begins with 'date' or 'num', the call fails with the format
\* error and returns no value.
C11_Original ==
    (ret # None /\ call.transform_format \notin SupportedFormats) =>
        Get(ret).kind = "raise" /\ Get(ret).err = "InstanceParseException"

\* C12 as stated: the transform format is matched case-insensitively (a
\* letter-case variant of a supported keyword gives the result of the keyword
\* itself), and the text is trimmed and lower-cased before dispatch.
C12_Original ==
    (ret # None /\ Lower(call.transform_format) \in SupportedFormats) =>
        /\ Get(ret) = _normalize_transformed_value(call.value, Lower(call.transform_format))
        /\ Get(ret) = _normalize_transformed_value(Strip(Lower(call.value)),
                                                   Lower(call.transform_format))

\* The date sub-formats: the positions of the day, month and year segments (y is
\* 0 when the sub-format has no year) and whether the month is an English name
DateSubFormats ==
    {[name |-> <<"d", "a", "t", "e", "d", "a", "y", "m", "o", "n", "t", "h">>, d |-> 1, m |-> 2, y |-> 0, en |-> FALSE],
     [name |-> <<"d", "a", "t", "e", "d", "a", "y", "m", "o", "n", "t", "h", "e", "n">>, d |-> 1, m |-> 2, y |-> 0, en |-> TRUE],
     [name |-> <<"d", "a", "t", "e", "d", "a", "y", "m", "o", "n", "t", "h", "y", "e", "a", "r">>, d |-> 1, m |-> 2, y |-> 3, en |-> FALSE],
     [name |-> <<"d", "a", "t", "e", "d", "a", "y", "m", "o", "n", "t", "h", "y", "e", "a", "r", "e", "n">>, d |-> 1, m |-> 2, y |-> 3, en |-> TRUE],
     [name |-> <<"d", "a", "t", "e", "m", "o", "n", "t", "h", "d", "a", "y">>, d |-> 2, m |-> 1, y |-> 0, en |-> FALSE],
     [name |-> <<"d", "a", "t", "e", "m", "o", "n", "t", "h", "d", "a", "y", "e", "n">>, d |-> 2, m |-> 1, y |-> 0, en |-> TRUE],
     [name |-> <<"d", "a", "t", "e", "m", "o", "n", "t", "h", "d", "a", "y", "y", "e", "a", "r">>, d |-> 2, m |-> 1, y |-> 3, en |-> FALSE],
     [name |-> <<"d", "a", "t", "e", "m", "o", "n", "t", "h", "d", "a", "y", "y", "e", "a", "r", "e", "n">>, d |-> 2, m |-> 1, y |-> 3, en |-> TRUE],
     [name |-> <<"d", "a", "t", "e", "y", "e", "a", "r", "m", "o", "n", "t", "h", "d", "a", "y">>, d |-> 3, m |-> 2, y |-> 1, en |-> FALSE]}
\* the segments of a text: its parts between runs of ',', '-', '.', '_' and spaces
SegmentsOf(value) == Split(SqueezeSpaces(SeparatorsToSpaces(Strip(Lower(value)))), " ")
MonthNumber(tok, en) ==
    IF ~en THEN (IF TwoDigits(tok, 12) THEN DigitsVal(tok) ELSE 0)
    ELSE IF MonthOf(MonthAbbrs, tok) # 0 THEN MonthOf(MonthAbbrs, tok)
    ELSE MonthOf(MonthNames, tok)
\* the text is a day, a month and (for o.y # 0) a year of one, two or four digits
\* in the order o, and names a day that exists
MadeOfSegments(seg, o) ==
    /\ Len(seg) = IF o.y = 0 THEN 2 ELSE 3
    /\ TwoDigits(seg[o.d], 31)
    /\ MonthNumber(seg[o.m], o.en) # 0
    /\ o.y # 0 => AllDigits(seg[o.y]) /\ Len(seg[o.y]) \in {1, 2, 4}
    /\ DigitsVal(seg[o.d]) <=
          DaysIn(IF o.y # 0 /\ Len(seg[o.y]) = 4 /\ DigitsVal(seg[o.y]) > 0
                 THEN DigitsVal(seg[o.y]) ELSE 2000,
                 MonthNumber(seg[o.m], o.en))
MonthDaySuffix(seg, o) ==
    <<"-">> \o Zfill2(NatStr(MonthNumber(seg[o.m], o.en))) \o <<"-">>
    \o Zfill2(NatStr(DigitsVal(seg[o.d])))

\* C13 as stated: for a date sub-format and a text made of its segments the
\* call returns '--MM-DD' (two segments) or 'YYYY-MM-DD' with a four-digit year
\* (three segments), month and day zero-padded to width 2.
C13_Original ==
    \A o \in DateSubFormats :
        (/\ ret # None /\ call.transform_format = o.name
         /\ MadeOfSegments(SegmentsOf(call.value), o)) =>
            LET seg == SegmentsOf(call.value)
                out == Get(ret).str
            IN  /\ Get(ret).kind = "str"
                /\ IF o.y = 0
                   THEN out = <<"-">> \o MonthDaySuffix(seg, o)
                   ELSE /\ Len(out) = 10
                        /\ AllDigits(SubSeq(out, 1, 4))
                        /\ Len(seg[o.y]) = 4 => SubSeq(out, 1, 4) = seg[o.y]
                        /\ SubSeq(out, 5, 10) = MonthDaySuffix(seg, o)

IsFormattedNumber(value, group, decimal_mark) ==
    LET body == IF Len(value) > 0 /\ value[1] = "-" THEN SubSeq(value, 2, Len(value)) ELSE value
        marks == {i \in 1..Len(body) : body[i] = decimal_mark}
        whole == IF marks = {} THEN body ELSE SubSeq(body, 1, (CHOOSE i \in marks : TRUE) - 1)
        frac == IF marks = {} THEN <<>>
                ELSE SubSeq(body, (CHOOSE i \in marks : TRUE) + 1, Len(body))
    IN  /\ Cardinality(marks) <= 1
        /\ Len(whole) > 0 /\ IsDigit(whole[1]) /\ IsDigit(whole[Len(whole)])
        /\ \A i \in 1..Len(whole) : IsDigit(whole[i]) \/ whole[i] \in group
        /\ \A i \in 1..(Len(whole) - 1) : ~(whole[i] \in group /\ whole[i + 1] \in group)
        /\ marks # {} => Len(frac) > 0 /\ AllDigits(frac)
\* the same number written canonically: separators dropped, '.' as decimal mark
Canonical(value, group, decimal_mark) ==
    LET Rec[i \in 0..Len(value)] ==
            IF i = 0 THEN <<>>
            ELSE IF value[i] \in group THEN Rec[i - 1]
            ELSE IF value[i] = decimal_mark THEN Append(Rec[i - 1], ".")
            ELSE Append(Rec[i - 1], value[i])
    IN  Rec[Len(value)]

\* C15 as stated: for numcommadecimal and numdotdecimal and every text that is
\* a formatted number the call returns the canonical decimal string of the same
\* number: separators removed, '.' as decimal mark, digits and a leading minus
\* kept in order.
C15_Original ==
    /\ (/\ ret # None /\ call.transform_format = <<"n", "u", "m", "c", "o", "m", "m", "a", "d", "e", "c", "i", "m", "a", "l">>
        /\ IsFormattedNumber(Strip(Lower(call.value)), {".", " "}, ","))
       => Get(ret) = VStr(Canonical(Strip(Lower(call.value)), {".", " "}, ","))
    /\ (/\ ret # None /\ call.transform_format = <<"n", "u", "m", "d", "o", "t", "d", "e", "c", "i", "m", "a", "l">>
        /\ IsFormattedNumber(Strip(Lower(call.value)), {",", " "}, "."))
       => Get(ret) = VStr(Canonical(Strip(Lower(call.value)), {",", " "}, "."))

\* the format attribute names numwordsen, with or without a registry prefix
IsNumwordsen(format) ==
    /\ ~IsNone(format)
    /\ Split(Get(format), ":")[Len(Split(Get(format), ":"))] = <<"n", "u", "m", "w", "o", "r", "d", "s", "e", "n">>

\* C16 as stated: the pass of parse_ixbrl over an ix:nonFraction element with
\* format numwordsen and text 'no' whose concept, context and unit resolve
\* appends a NumericFact with value zero, and the parse does not fail.
C16_Original ==
    [][(/\ mode = "ixbrl" /\ InFactLoop
        /\ CurrentElem.tag = IxTag(ns_map, nonFraction)
        /\ IsNumwordsen(CurrentElem.format)
        /\ Strip(Lower(StrOf(CurrentElem.text))) = <<"n", "o">>
        /\ IxLooksUp(CurrentElem, ns_map, context_dir, unit_dir)) =>
        /\ pc' # "error"
        /\ Appended
        /\ LastFact.kind = "numeric"
        /\ LastFact.value = Some(0)]_vars

(***************************************************************************)
(* helper/uri_helper.py                                                    *)
(***************************************************************************)
DropFirst(s, n) == SubSeq(s, n + 1, Len(s))
Last(parts) == parts[Len(parts)]

\* s.split(sep) for a text sep
RECURSIVE SplitStrFrom(_, _, _)
SplitStrFrom(s, sep, cur) ==
    IF s = <<>> THEN <<cur>>
    ELSE IF StartsWith(s, sep)
    THEN <<cur>> \o SplitStrFrom(DropFirst(s, Len(sep)), sep, <<>>)
    ELSE SplitStrFrom(Tail(s), sep, Append(cur, Head(s)))
SplitStr(s, sep) == SplitStrFrom(s, sep, <<>>)

\* s.count(sub): the number of non-overlapping occurrences
RECURSIVE Count(_, _)
Count(s, sub) ==
    IF Len(s) < Len(sub) THEN 0
    ELSE IF StartsWith(s, sub) THEN 1 + Count(DropFirst(s, Len(sub)), sub)
    ELSE Count(Tail(s), sub)

\* sep.join(parts)
RECURSIVE Join(_, _)
Join(parts, sep) ==
    IF parts = <<>> THEN <<>>
    ELSE IF Len(parts) = 1 THEN parts[1]
    ELSE parts[1] \o sep \o Join(Tail(parts), sep)

\* os.path.dirname(p) on a POSIX system
RECURSIVE RStripSlash(_)
RStripSlash(s) == IF s # <<>> /\ s[Len(s)] = "/" THEN RStripSlash(SubSeq(s, 1, Len(s) - 1)) ELSE s
Dirname(p) ==
    LET slashes == {i \in 1..Len(p) : p[i] = "/"}
        head == IF slashes = {} THEN <<>>
                ELSE SubSeq(p, 1, CHOOSE i \in slashes : \A j \in slashes : j <= i)
    IN  IF head # <<>> /\ \E i \in 1..Len(head) : head[i] # "/" THEN RStripSlash(head) ELSE head

\* os.path.normpath(path) on a POSIX system
RECURSIVE NormComps(_, _, _)
NormComps(comps, new_comps, initial_slashes) ==
    IF comps = <<>> THEN new_comps
    ELSE LET comp == Head(comps) IN
         IF comp = <<>> \/ comp = <<".">> THEN NormComps(Tail(comps), new_comps, initial_slashes)
         ELSE IF \/ comp # <<".", ".">>
                 \/ (initial_slashes = 0 /\ new_comps = <<>>)
                 \/ (new_comps # <<>> /\ Last(new_comps) = <<".", ".">>)
         THEN NormComps(Tail(comps), Append(new_comps, comp), initial_slashes)
         ELSE IF new_comps # <<>>
         THEN NormComps(Tail(comps), SubSeq(new_comps, 1, Len(new_comps) - 1), initial_slashes)
         ELSE NormComps(Tail(comps), new_comps, initial_slashes)
Normpath(path) ==
    IF path = <<>> THEN <<".">>
    ELSE LET initial_slashes ==
                 IF ~StartsWith(path, <<"/">>) THEN 0
                 ELSE IF StartsWith(path, <<"/", "/">>) /\ ~StartsWith(path, <<"/", "/", "/">>)
                 THEN 2 ELSE 1
             joined == Join(NormComps(Split(path, "/"), <<>>, initial_slashes), <<"/">>)
             out == [i \in 1..initial_slashes |-> "/"] \o joined
         IN  IF out = <<>> THEN <<".">> ELSE out

\* Lines 50-56: one pass over url_parts for each occurrence of '/..'; a pass
\* deletes the first '..' that has a part before it, together with that part
DeleteFirstDotDot(url_parts) ==
    LET hits == {y \in 1..(Len(url_parts) - 1) : url_parts[y + 1] = <<".", ".">>} IN
    IF hits = {} THEN url_parts
    ELSE LET y == CHOOSE y \in hits : \A z \in hits : y <= z IN
         SubSeq(url_parts, 1, y - 1) \o SubSeq(url_parts, y + 2, Len(url_parts))
RECURSIVE Collapse(_, _)
Collapse(url_parts, passes) ==
    IF passes = 0 THEN url_parts ELSE Collapse(DeleteFirstDotDot(url_parts), passes - 1)

http == <<"h", "t", "t", "p">>

\* resolve_uri(dir_uri, relative_uri) with os.sep = '/'
resolve_uri(dir_uri, relative_uri0) ==
    IF StartsWith(relative_uri0, http) THEN relative_uri0
    ELSE
    LET rel1 == IF StartsWith(relative_uri0, <<"/">>) THEN DropFirst(relative_uri0, 1)
                ELSE relative_uri0
        relative_uri == IF StartsWith(rel1, <<".", "/">>) THEN DropFirst(rel1, 2) ELSE rel1
    IN
    IF ~StartsWith(dir_uri, http) THEN
        IF Contains(Last(Split(dir_uri, "/")), <<".">>)
        THEN Normpath(Dirname(dir_uri) \o <<"/">> \o relative_uri)
        ELSE Normpath(dir_uri \o <<"/">> \o relative_uri)
    ELSE
    LET dir1 == IF Contains(Last(Split(dir_uri, "/")), <<".">>)
                THEN Join(SubSeq(Split(dir_uri, "/"), 1, Len(Split(dir_uri, "/")) - 1), <<"/">>)
                ELSE dir_uri
        dir2 == IF dir1 = <<>> \/ Last(dir1) # "/" THEN dir1 \o <<"/">> ELSE dir1
        joined == dir2 \o relative_uri
        absolute_uri == IF ~StartsWith(dir2, http) THEN Normpath(joined) ELSE joined
    IN  Join(Collapse(Split(absolute_uri, "/"), Count(absolute_uri, <<"/", ".", ".">>)), <<"/">>)

\* pattern = re.compile('[\W]+'): \W is every character that is not a letter,
\* a digit or the underscore
IsWordChar(c) ==
    \/ IsDigit(c) \/ c = "_"
    \/ \E i \in 1..26 : UpperChars[i] = c \/ LowerChars[i] = c

\* pattern.sub('', uri.split('://')[-1])
Stripped(uri) == SelectSeq(Last(SplitStr(uri, <<":", "/", "/">>)), IsWordChar)
\* Lines 75-87: the cached text of a uri, and the cache after the lookup
Cached(cache, uri) == IF uri \in DOMAIN cache THEN cache[uri] ELSE Stripped(uri)
Remember(cache, uri) == IF uri \in DOMAIN cache THEN cache ELSE Put(cache, uri, Stripped(uri))

\* a compare_uri whose second branch stores the text of uri1 under uri2
compare_uri_crossed(cache, uri1, uri2) ==
    LET cache1 == Remember(cache, uri1) IN
    [val |-> Cached(cache, uri1) = Cached(cache1, uri2),
     cache |-> IF uri2 \in DOMAIN cache1 THEN cache1 ELSE Put(cache1, uri2, Cached(cache, uri1))]

\* compare_uri(uri1, uri2) run on the cache: the bool returned and the cache left
compare_uri(cache, uri1, uri2) ==
    [val |-> Cached(cache, uri1) = Cached(Remember(cache, uri1), uri2),
     cache |-> Remember(Remember(cache, uri1), uri2)]

VBool(b) == [kind |-> "bool", num |-> IF b THEN 1 ELSE 0, str |-> <<>>, err |-> ""]

\* the addresses compared and resolved
CompareUris ==
    {<<"h", "t", "t", "p", ":", "/", "/", "a", "b", "c", ".", "o", "r", "g", "/", "2", "0", "2", "0">>,
     <<"h", "t", "t", "p", "s", ":", "/", "/", "a", "b", "c", ".", "o", "r", "g", "/", "2", "0", "2", "0">>,
     <<"/", "a", "b", "c", ".", "d", "e", "/", "2", "0", "2", "0">>,
     <<"/", "a", "b", "c", "/", "2", "0", "2", "0">>,
     <<"a", "b", "c", ".", "d", "e", "\\", "2", "0", "2", "0">>,
     <<"h", "t", "t", "p", ":", "/", "/", "a", "b", "c", ".", "o", "r", "g", "/", "2", "0", "_", "2", "0">>}
DirUris ==
    {<<"h", "t", "t", "p", ":", "/", "/", "a", "b", "c", ".", "o", "r", "g", "/", "a", "/", "b", "/", "c">>,
     <<"h", "t", "t", "p", ":", "/", "/", "a", "b", "c", ".", "o", "r", "g", "/", "a", "/", "b", "/", "c", ".", "x", "s", "d">>,
     <<"h", "t", "t", "p", ":", "/", "/", "a", "b", "c", ".", "o", "r", "g", "/", "a", "/">>,
     <<"/", "d", "a", "t", "a", "/", "a", "/", "i", "n", "s", "t", ".", "x", "m", "l">>,
     <<"d", "a", "t", "a", "/", "a">>}
RelativeUris ==
    {<<"/", ".", ".", "/", "l", "a", "b", ".", "x", "m", "l">>,
     <<".", ".", "/", ".", ".", "/", "l", "a", "b", ".", "x", "m", "l">>,
     <<".", "/", "l", "a", "b", ".", "x", "m", "l">>,
     <<"h", "t", "t", "p", ":", "/", "/", "x", ".", "o", "r", "g", "/", "l", "a", "b", ".", "x", "m", "l">>,
     <<"x", "/", ".", ".", ".", "/", "l", "a", "b", ".", "x", "m", "l">>,
     <<".", ".", "/", ".", ".", "a", "/", "l", "a", "b", ".", "x", "m", "l">>,
     <<"a", "/", "/", "b", "/", ".", ".", "/", ".", ".", "/", ".", ".", "/", "l", "a", "b", ".", "x", "m", "l">>}

InitUri == Idle /\ call = [fn |-> "none"] /\ ret = None

CompareUri ==
    \E uri1 \in CompareUris, uri2 \in CompareUris :
        LET r == compare_uri(uri_cache, uri1, uri2) IN
        /\ call' = [fn |-> "compare_uri", uri1 |-> uri1, uri2 |-> uri2]
        /\ ret' = Some(VBool(r.val))
        /\ uri_cache' = r.cache
        /\ UNCHANGED parseVars

ResolveUri ==
    \E dir_uri \in DirUris, relative_uri \in RelativeUris :
        /\ call' = [fn |-> "resolve_uri", dir_uri |-> dir_uri, relative_uri |-> relative_uri]
        /\ ret' = Some(VStr(resolve_uri(dir_uri, relative_uri)))
        /\ UNCHANGED <<parseVars, uri_cache>>

NextUri == CompareUri \/ ResolveUri
SpecUri == InitUri /\ [][NextUri]_vars

\* Claims about uri_helper
IsAlnum(c) == IsDigit(c) \/ \E i \in 1..26 : UpperChars[i] = c \/ LowerChars[i] = c
\* a uri without its protocol and without every character that is not a letter or digit
AlnumOnly(uri) == SelectSeq(Last(SplitStr(uri, <<":", "/", "/">>)), IsAlnum)
Compared(uri1, uri2) ==
    call.fn = "compare_uri" /\ ret # None /\ call.uri1 = uri1 /\ call.uri2 = uri2

\* C17 as stated: compare_uri(a, b) returns true exactly when a and b are the
\* same text once the protocol and every non-alphanumeric character, '_'
\* included, are removed from each; so 'http://abc.org/2020' equals
\* 'https://abc.org/2020' and '/abc.de/2020' differs from '/abc/2020'.
C17_Original ==
    /\ (call.fn = "compare_uri" /\ ret # None) =>
          Get(ret) = VBool(AlnumOnly(call.uri1) = AlnumOnly(call.uri2))
    /\ Compared(<<"h", "t", "t", "p", ":", "/", "/", "a", "b", "c", ".", "o", "r", "g", "/", "2", "0", "2", "0">>, <<"h", "t", "t", "p", "s", ":", "/", "/", "a", "b", "c", ".", "o", "r", "g", "/", "2", "0", "2", "0">>) => Get(ret) = VBool(TRUE)
    /\ Compared(<<"/", "a", "b", "c", ".", "d", "e", "/", "2", "0", "2", "0">>, <<"/", "a", "b", "c", "/", "2", "0", "2", "0">>) => Get(ret) = VBool(FALSE)

Resolved(dir_uri, relative_uri) ==
    /\ call.fn = "resolve_uri" /\ ret # None
    /\ call.dir_uri = dir_uri /\ call.relative_uri = relative_uri

\* C18 as stated: resolve_uri('http://abc.org/a/b/c', '/../lab.xml') returns
\* 'http://abc.org/a/lab.xml', and for every http base and relative address
\* the result has no '..' segment left.
C18_Original ==
    /\ Resolved(<<"h", "t", "t", "p", ":", "/", "/", "a", "b", "c", ".", "o", "r", "g", "/", "a", "/", "b", "/", "c">>, <<"/", ".", ".", "/", "l", "a", "b", ".", "x", "m", "l">>) => Get(ret) = VStr(<<"h", "t", "t", "p", ":", "/", "/", "a", "b", "c", ".", "o", "r", "g", "/", "a", "/", "l", "a", "b", ".", "x", "m", "l">>)
    /\ (/\ call.fn = "resolve_uri" /\ ret # None
        /\ StartsWith(call.dir_uri, http) /\ ~StartsWith(call.relative_uri, http)) =>
          \A k \in 1..Len(Split(Get(ret).str, "/")) : Split(Get(ret).str, "/")[k] # <<".", ".">>

\* The taxonomy lookup of the fact element the loop is at: whether the pass
\* reaches it, and the namespace it asks for
ReachesLookup ==
    IF mode = "xbrl"
    THEN ~IsSkipped(CurrentElem) /\ Len(Split(CurrentElem.tag, "}")) = 2
    ELSE /\ ~IsNone(CurrentElem.name)
         /\ Len(Split(Get(CurrentElem.name), ":")) = 2
         /\ Split(Get(CurrentElem.name), ":")[1] \in DOMAIN _update_ns_map(ns_map, CurrentElem.nsmap)
FactNamespace ==
    IF mode = "xbrl" THEN Replace(Split(CurrentElem.tag, "}")[1], "{", <<>>)
    ELSE _update_ns_map(ns_map, CurrentElem.nsmap)[Split(Get(CurrentElem.name), ":")[1]]
Misses(namespace) == namespace \notin PrimaryNs \cup Range(imports)
NoDuplicates(seq) == \A i, j \in 1..Len(seq) : seq[i] = seq[j] => i = j
Extends(longer, shorter) ==
    Len(shorter) <= Len(longer) /\ SubSeq(longer, 1, Len(shorter)) = shorter

\* C19: a fact pass whose taxonomy lookup misses appends the namespace to the
\* import list exactly once and resolves the concept in it when the common
\* taxonomy exists, and otherwise fails with TaxonomyNotFound and leaves the
\* list as it was; a fact pass whose lookup hits, or that does not reach the
\* lookup, leaves the list unchanged; a context step only appends common
\* taxonomies that were not yet imported, each once, and every explicit member
\* it stores is resolved in the primary taxonomy or an import; no other step
\* changes the list.
C19_FallbackImports ==
    [][/\ (InFactLoop /\ ReachesLookup /\ Misses(FactNamespace)) =>
             IF FactNamespace \in CommonNs
             THEN /\ imports' = Append(imports, FactNamespace)
                  /\ Appended => LastFact.concept.ns = FactNamespace
             ELSE /\ pc' = "error" /\ Get(result').err = "TaxonomyNotFound"
                  /\ imports' = imports
       /\ (InFactLoop /\ ~(ReachesLookup /\ Misses(FactNamespace))) => imports' = imports
       /\ (pc = "contexts" /\ ctx_i < Len(ContextElements(mode, doc))) =>
             /\ Extends(imports', imports)
             /\ NoDuplicates(imports')
             /\ \A i \in 1..Len(imports') : imports'[i] \in CommonNs
             /\ ctx_i' = ctx_i + 1 =>
                   LET stored == context_dir'[Get(ContextElements(mode, doc)[ctx_i + 1].id)] IN
                   \A k \in 1..Len(stored.segments) :
                       /\ stored.segments[k].dimension.ns \in PrimaryNs \cup Range(imports')
                       /\ stored.segments[k].member.ns \in PrimaryNs \cup Range(imports')
       /\ ~(InFactLoop \/ (pc = "contexts" /\ ctx_i < Len(ContextElements(mode, doc)))) =>
             imports' = imports]_vars
\* two facts resolved in the common taxonomy, the second found among the imports
C19_Witness ==
    /\ imports = <<<<"D">>>>
    /\ Len(facts) = 2
    /\ facts[1].concept.ns = <<"D">> /\ facts[2].concept.ns = <<"D">>

\* the explicitMember elements of the context element the loop is at
CurrentMembers ==
    LET context_elem == ContextElements(mode, doc)[ctx_i + 1] IN
    IF IsNone(context_elem.segment) THEN <<>> ELSE Get(context_elem.segment)

\* C20: no step of a parse changes or removes a binding of the namespace-prefix
\* map; a pass of the iXBRL fact loop adds exactly the prefixes the element
\* declares that were not bound, with the declared namespaces; a context step
\* adds only prefixes that an explicitMember of that context declares; every
\* other step after the start adds nothing.
C20_NsMapOnlyGrows ==
    [][/\ \A p \in DOMAIN ns_map : p \in DOMAIN ns_map' /\ ns_map'[p] = ns_map[p]
       /\ (mode = "ixbrl" /\ InFactLoop) =>
             /\ DOMAIN ns_map' = DOMAIN ns_map \cup DOMAIN CurrentElem.nsmap
             /\ \A p \in DOMAIN ns_map' \ DOMAIN ns_map : ns_map'[p] = CurrentElem.nsmap[p]
       /\ (pc = "contexts" /\ ctx_i < Len(ContextElements(mode, doc))) =>
             \A p \in DOMAIN ns_map' \ DOMAIN ns_map :
                 \E k \in 1..Len(CurrentMembers) :
                     /\ p \in DOMAIN CurrentMembers[k].nsmap
                     /\ ns_map'[p] = CurrentMembers[k].nsmap[p]
       /\ ~(\/ pc = "start"
            \/ mode = "ixbrl" /\ InFactLoop
            \/ pc = "contexts" /\ ctx_i < Len(ContextElements(mode, doc))) =>
             ns_map' = ns_map]_vars
\* an iXBRL fact resolved through the prefix 'e' that an explicitMember bound,
\* while 'g', which that element declared anew, kept its first namespace
C20_Witness ==
    /\ mode = "ixbrl" /\ Len(facts) >= 1
    /\ facts[Len(facts)].concept = Concept(<<"D">>, <<"N", "a", "m", "e">>)
    /\ <<"e">> \in DOMAIN ns_map /\ <<"e">> \notin DOMAIN doc.nsmap
    /\ ns_map[<<"g">>] = <<"G">>

\* what compare_uri computes when no call was made before: the normalized form
\* of each address, and the result for each pair of addresses
NormalizedForm == [uri \in CompareUris |-> Stripped(uri)]
FreshResult ==
    [uri1 \in CompareUris, uri2 \in CompareUris |-> compare_uri(EmptyDict, uri1, uri2).val]

\* C21: after every step each entry of uri_cache holds the normalized form of
\* its own key, and no entry is changed or removed; a compare_uri call adds
\* exactly its two arguments, and returns what it returns on an empty cache,
\* also with its arguments exchanged.
C21_CacheTransparent ==
    [][/\ \A uri \in DOMAIN uri_cache' : uri_cache'[uri] = NormalizedForm[uri]
       /\ \A uri \in DOMAIN uri_cache :
             uri \in DOMAIN uri_cache' /\ uri_cache'[uri] = uri_cache[uri]
       /\ call'.fn # "compare_uri" => uri_cache' = uri_cache
       /\ call'.fn = "compare_uri" =>
             /\ DOMAIN uri_cache' = DOMAIN uri_cache \cup {call'.uri1, call'.uri2}
             /\ Get(ret') = VBool(FreshResult[call'.uri1, call'.uri2])
             /\ Get(ret') = VBool(FreshResult[call'.uri2, call'.uri1])]_vars
\* a call that found both of its arguments in a cache filled by earlier calls
\* and returned true for two different addresses
C21_Witness ==
    /\ call.fn = "compare_uri" /\ ret # None
    /\ call.uri1 # call.uri2 /\ Get(ret) = VBool(TRUE)
    /\ Cardinality(DOMAIN uri_cache) >= 4
====
